---- MODULE Spec2Model ----
(***************************************************************************)
(* Commonry: the spaced-repetition scheduling engine (lib/srs-engine.ts),  *)
(* the identifier mapping service (services/import-mapping-service.ts),    *)
(* the Anki archive importer (lib/anki-import.ts) and exporter             *)
(* (lib/anki-export.ts) over the Dexie stores (storage/database.ts).       *)
(*                                                                         *)
(* Ease factors are kept in hundredths (2.5 is 250); every value the       *)
(* engine produces from 2.5 by -0.2, -0.15, +0.15 and the 1.3 floor is a   *)
(* multiple of 0.05, so the arithmetic below is exact.                     *)
(***************************************************************************)
EXTENDS Integers, Sequences, FiniteSets, TLC

VARIABLES
    srsCard, srsPrev, srsRating,                  \* scheduling engine
    importMappings, nextMappingId, uniqueTriple,  \* db.importMappings
    idCounter, clock,                             \* ulid() and new Date()
    call, returned,                               \* getOrCreateMapping callers
    importBatches, cards, decks,                  \* db.importBatches, db.cards, db.decks
    imp,                                          \* importAnkiDeck in progress
    rb,                                           \* rollbackImportBatch in progress
    created, rolledBack,                          \* what each import stored; finished rollbacks
    imported, exported,                           \* returns of importAnkiDeck; last export
    noteIn, noteOut,                              \* one note handed to the note loop; its cards
    bat,                                          \* getOrCreateMappingsBatch in progress
    mediaStore, ext,                              \* the AnkiMedia store; extractMediaFiles in progress
    sessions, rev,                                \* db.sessions; recordReview in progress
    zipIn, loaded                                 \* a zip handed to loadCollectionDatabase; its result

srsVars == <<srsCard, srsPrev, srsRating>>
mapVars == <<importMappings, nextMappingId, uniqueTriple, idCounter, clock>>
callVars == <<call, returned>>
entityVars == <<importBatches, cards, decks>>
tripVars == <<imported, exported>>
mediaVars == <<mediaStore, ext>>
reviewVars == <<sessions, rev>>
loadVars == <<zipIn, loaded>>
pureVars == <<noteIn, noteOut, bat, mediaVars, reviewVars, loadVars>>
procVars == <<imp, rb, created, rolledBack, tripVars, pureVars>>

vars == <<srsCard, srsPrev, srsRating, importMappings, nextMappingId,
          uniqueTriple, idCounter, clock, call, returned,
          importBatches, cards, decks, imp, rb, created, rolledBack,
          imported, exported, noteIn, noteOut, bat, mediaStore, ext, sessions, rev, zipIn, loaded>>

----------------------------------------------------------------------------
(* Bounds *)

MaxReviews == 4
MaxInterval == 12
MaxEaseSteps == 30
MaxRepetitions == 3
MaxLapses == 1
MaxIds == 3
MaxClock == 3
MaxImports == 2
MaxListLen == 2
MaxNative == 1

----------------------------------------------------------------------------
(* Scheduling engine: SRSEngine in lib/srs-engine.ts *)

INITIAL_EASE == 250
MIN_EASE == 130
EASY_BONUS == 13
INTERVAL_MODIFIER == 10
HARD_MODIFIER == 8
AGAIN_PENALTY == 20

Ratings == 1..4
Statuses == {"new", "learning", "review", "relearning"}

Max(a, b) == IF a >= b THEN a ELSE b

\* Math.round on a non-negative value given in thousandths.
RoundThousandths(x) == (x + 500) \div 1000

\* [0, -0.15, 0, 0.15][rating - 1]
easeAdjustment(rating) == <<0, -15, 0, 15>>[rating]

\* Variant: the product is truncated instead of rounded.
newInterval_truncated(card, rating) ==
    LET base == card.interval * card.easeFactor
        modified == IF rating = 2 THEN base * HARD_MODIFIER
                    ELSE IF rating = 4 THEN base * EASY_BONUS
                    ELSE base * 10
    IN ((modified * INTERVAL_MODIFIER) \div 10) \div 1000

\* Variant: the Easy bonus is left out.
newInterval_noBonus(card, rating) ==
    LET base == card.interval * card.easeFactor
        modified == IF rating = 2 THEN base * HARD_MODIFIER ELSE base * 10
    IN RoundThousandths((modified * INTERVAL_MODIFIER) \div 10)

\* interval * easeFactor, then the rating modifier, then INTERVAL_MODIFIER,
\* in thousandths: hundredths of ease times tenths of modifier.
newInterval(card, rating) ==
    LET base == card.interval * card.easeFactor
        modified == IF rating = 2 THEN base * HARD_MODIFIER
                    ELSE IF rating = 4 THEN base * EASY_BONUS
                    ELSE base * 10
    IN RoundThousandths((modified * INTERVAL_MODIFIER) \div 10)

createCard ==
    [status |-> "new", interval |-> 0, easeFactor |-> INITIAL_EASE,
     repetitions |-> 0, lapses |-> 0, totalReviews |-> 0]

\* Variant: the ease factor is lowered without the MIN_EASE floor.
forgotten_noFloor(card) ==
    [card EXCEPT !.lapses = @ + 1,
                 !.repetitions = 0,
                 !.interval = 1,
                 !.status = "relearning",
                 !.easeFactor = @ - AGAIN_PENALTY]

\* rating === 1: the card was forgotten.
forgotten(card) ==
    [card EXCEPT !.lapses = @ + 1,
                 !.repetitions = 0,
                 !.interval = 1,
                 !.status = "relearning",
                 !.easeFactor = Max(MIN_EASE, @ - AGAIN_PENALTY)]

\* Variant: Easy graduates with the same interval as Good.
learningPhase_easyAsGood(card, rating) ==
    IF rating >= 3
    THEN [card EXCEPT !.status = "review", !.interval = 1]
    ELSE [card EXCEPT !.interval = 1]

\* rating >= 2 on a card whose status is new or learning.
learningPhase(card, rating) ==
    IF rating >= 3
    THEN [card EXCEPT !.status = "review",
                      !.interval = IF rating = 4 THEN 4 ELSE 1]
    ELSE [card EXCEPT !.interval = 1]

\* rating >= 2 on a card whose status is review or relearning.
reviewPhase(card, rating) ==
    [card EXCEPT !.interval = IF card.repetitions = 0 THEN 1
                              ELSE IF card.repetitions = 1 THEN 6
                              ELSE newInterval(card, rating),
                 !.repetitions = @ + 1]

\* The per-rating ease delta, floored at MIN_EASE and not capped above.
adjustEase(card, rating) ==
    [card EXCEPT !.easeFactor = Max(MIN_EASE, @ + easeAdjustment(rating))]

calculateNextReview(card, rating) ==
    LET tracked == [card EXCEPT !.totalReviews = @ + 1]
    IN IF rating = 1
       THEN forgotten(tracked)
       ELSE adjustEase(IF tracked.status = "new" \/ tracked.status = "learning"
                       THEN learningPhase(tracked, rating)
                       ELSE reviewPhase(tracked, rating),
                       rating)

----------------------------------------------------------------------------
(* Identifier mapping service: services/import-mapping-service.ts *)

SourceSystems == {"anki", "commonry"}
SourceIds == {<<"1001">>, <<"1002">>}
EntityTypes == {"card", "deck", "note", "media"}
Callers == {"p1", "p2"}

\* null or undefined where an id is expected, and where a row is expected.
None == <<>>
NoRow == [id |-> 0]
NoBatch == <<>>
ConstraintError == <<"ConstraintError">>

Triples == SourceSystems \X SourceIds \X EntityTypes

\* The triples the callers ask for: pairs that differ in exactly one component.
TripleInputs ==
    {<<"anki", <<"1001">>, "card">>, <<"anki", <<"1001">>, "deck">>,
     <<"anki", <<"1002">>, "card">>, <<"commonry", <<"1001">>, "card">>}

\* IdService.generate: a prefixed ULID, never issued twice.
generateId(entityType, n) == <<entityType, n>>

RowTriple(m) == <<m.sourceSystem, m.sourceId, m.entityType>>

\* where("[sourceSystem+sourceId+entityType]").equals(triple): the rows of
\* the table, in primary-key order, that carry the triple.
RowsOf(table, triple) == SelectSeq(table, LAMBDA m : RowTriple(m) = triple)

\* Variant: the lookup ignores the entity type.
LookupMapping_anyType(table, triple) ==
    LET rows == SelectSeq(table, LAMBDA m : m.sourceSystem = triple[1]
                                              /\ m.sourceId = triple[2])
    IN IF rows = <<>> THEN NoRow ELSE Head(rows)

\* .first(): the matching row with the lowest primary key, or undefined.
LookupMapping(table, triple) ==
    IF RowsOf(table, triple) = <<>> THEN NoRow ELSE Head(RowsOf(table, triple))

\* Variant: the update rewrites the import time as well.
TouchMapping_reimported(table, id, now) ==
    [i \in 1..Len(table) |->
        IF table[i].id = id THEN [table[i] EXCEPT !.updatedAt = now, !.importedAt = now]
        ELSE table[i]]

\* db.importMappings.update(id, {updatedAt}): no row with that key, no change.
TouchMapping(table, id, now) ==
    [i \in 1..Len(table) |->
        IF table[i].id = id THEN [table[i] EXCEPT !.updatedAt = now] ELSE table[i]]

NewMapping(triple, internalId, importBatchId, now) ==
    [id |-> 0,
     sourceSystem |-> triple[1], sourceId |-> triple[2], entityType |-> triple[3],
     internalId |-> internalId, importBatchId |-> importBatchId,
     importedAt |-> now, updatedAt |-> now]

\* The add is refused when the compound index is declared unique and already
\* holds the triple.
AddRefused(table, row) == uniqueTriple /\ RowsOf(table, RowTriple(row)) # <<>>

\* db.importMappings.add(mapping): ++id assigns the primary key.
AddMapping(table, row, key) == Append(table, [row EXCEPT !.id = key])

IdleCall ==
    [pc |-> "idle", triple |-> None, importBatchId |-> NoBatch, existing |-> NoRow,
     mapping |-> NoRow, ret |-> None, prior |-> None]

\* getOrCreateMapping(sourceSystem, sourceId, entityType, importBatchId) is
\* entered and issues the lookup.
GocStart(p, triple, batchId) ==
    /\ call[p].pc = "idle"
    /\ idCounter < MaxIds
    /\ clock < MaxClock
    /\ call' = [call EXCEPT ![p] =
                  [IdleCall EXCEPT !.pc = "lookup", !.triple = triple,
                                   !.importBatchId = batchId,
                                   !.prior = returned[triple]]]
    /\ UNCHANGED <<srsVars, mapVars, returned, entityVars, procVars>>

\* The lookup resolves; the caller either issues the timestamp update or
\* mints the internal id, builds the row and issues the add.
GocLookup(p) ==
    /\ call[p].pc = "lookup"
    /\ LET existing == LookupMapping(importMappings, call[p].triple)
       IN IF existing # NoRow
          THEN /\ call' = [call EXCEPT ![p].pc = "update", ![p].existing = existing]
               /\ UNCHANGED <<idCounter, clock>>
          ELSE /\ call' = [call EXCEPT
                             ![p].pc = "add",
                             ![p].mapping =
                                 NewMapping(call[p].triple,
                                            generateId(call[p].triple[3], idCounter + 1),
                                            call[p].importBatchId, clock + 1)]
               /\ idCounter' = idCounter + 1
               /\ clock' = clock + 1
    /\ UNCHANGED <<srsVars, importMappings, nextMappingId, uniqueTriple, returned,
                   entityVars, procVars>>

\* The timestamp update resolves and the existing internal id is returned.
GocUpdate(p) ==
    /\ call[p].pc = "update"
    /\ importMappings' = TouchMapping(importMappings, call[p].existing.id, clock + 1)
    /\ clock' = clock + 1
    /\ call' = [call EXCEPT ![p].pc = "done", ![p].ret = call[p].existing.internalId]
    /\ returned' = [returned EXCEPT ![call[p].triple] = call[p].existing.internalId]
    /\ UNCHANGED <<srsVars, nextMappingId, uniqueTriple, idCounter, entityVars, procVars>>

\* The add resolves: the row is stored and the new internal id returned, or
\* the unique index rejects it and the call fails.
GocAdd(p) ==
    /\ call[p].pc = "add"
    /\ IF AddRefused(importMappings, call[p].mapping)
       THEN /\ call' = [call EXCEPT ![p].pc = "done", ![p].ret = ConstraintError]
            /\ UNCHANGED <<importMappings, nextMappingId, returned>>
       ELSE /\ importMappings' =
                   AddMapping(importMappings, call[p].mapping, nextMappingId)
            /\ nextMappingId' = nextMappingId + 1
            /\ call' = [call EXCEPT ![p].pc = "done",
                                    ![p].ret = call[p].mapping.internalId]
            /\ returned' = [returned EXCEPT
                              ![call[p].triple] = call[p].mapping.internalId]
    /\ UNCHANGED <<srsVars, uniqueTriple, idCounter, clock, entityVars, procVars>>

\* The caller takes the result.
GocReturn(p) ==
    /\ call[p].pc = "done"
    /\ call' = [call EXCEPT ![p] = IdleCall]
    /\ UNCHANGED <<srsVars, mapVars, returned, entityVars, procVars>>

AllIdle == \A p \in Callers : call[p].pc = "idle"

\* A call entered while no other call is in flight.
GocStartAlone(p, triple, batchId) == AllIdle /\ GocStart(p, triple, batchId)

\* deleteMappingsBySource(sourceSystem), between calls.
deleteMappingsBySource(sourceSystem) ==
    /\ AllIdle
    /\ \E i \in 1..Len(importMappings) : importMappings[i].sourceSystem = sourceSystem
    /\ importMappings' =
           SelectSeq(importMappings, LAMBDA m : m.sourceSystem # sourceSystem)
    /\ returned' = [t \in Triples |-> IF t[1] = sourceSystem THEN None ELSE returned[t]]
    /\ UNCHANGED <<srsVars, nextMappingId, uniqueTriple, idCounter, clock, call,
                   entityVars, procVars>>

----------------------------------------------------------------------------
(* Mapping service, vectorized: getOrCreateMappingsBatch *)

\* One getOrCreateMapping call run to completion on its own: the state of the
\* table, the key and id generators and the clock, and what the call returns.
getOrCreateMapping(st, triple, importBatchId) ==
    LET existing == LookupMapping(st.table, triple)
        mapping == NewMapping(triple, generateId(triple[3], st.idCounter + 1),
                              importBatchId, st.clock + 1)
    IN IF existing # NoRow
       THEN [st EXCEPT !.table = TouchMapping(st.table, existing.id, st.clock + 1),
                       !.clock = st.clock + 1,
                       !.ret = Append(st.ret, existing.internalId)]
       ELSE [st EXCEPT !.table = AddMapping(st.table, mapping, st.nextKey),
                       !.nextKey = st.nextKey + 1,
                       !.idCounter = st.idCounter + 1,
                       !.clock = st.clock + 1,
                       !.ret = Append(st.ret, mapping.internalId)]

\* getOrCreateMapping called once per element of sourceIds, in list order.
RECURSIVE OncePerElement(_, _, _, _, _)
OncePerElement(st, sourceSystem, sourceIds, entityType, importBatchId) ==
    IF sourceIds = <<>> THEN st
    ELSE OncePerElement(
             getOrCreateMapping(st, <<sourceSystem, Head(sourceIds), entityType>>,
                                importBatchId),
             sourceSystem, Tail(sourceIds), entityType, importBatchId)

StoreState(table, key, counter, now) ==
    [table |-> table, nextKey |-> key, idCounter |-> counter, clock |-> now, ret |-> <<>>]

NoMap == [id \in {} |-> None]

IdleBatchCall ==
    [pc |-> "idle", sourceSystem |-> "", sourceIds |-> <<>>, entityType |-> "",
     importBatchId |-> NoBatch, mappings |-> NoMap, newMappings |-> <<>>,
     threw |-> FALSE, before |-> <<>>, serial |-> StoreState(<<>>, 1, 0, 0)]

\* mappings.set(key, value) for each pair of a list in order: a later pair
\* with the same key replaces the earlier one.
RECURSIVE MapSetAll(_, _)
MapSetAll(map, rows) ==
    IF rows = <<>> THEN map
    ELSE MapSetAll([id \in DOMAIN map \cup {Head(rows).sourceId} |->
                       IF id = Head(rows).sourceId THEN Head(rows).internalId
                       ELSE map[id]],
                   Tail(rows))

\* sourceIds.filter((id) => !mappings.has(id)): the list elements, repeats
\* included, that the existing rows did not put into the map.
newSourceIds(sourceIds, mappings) ==
    SelectSeq(sourceIds, LAMBDA id : id \notin DOMAIN mappings)

\* bulkAdd(rows): each row is added under the next primary key; a row the
\* unique index refuses is left out and makes the whole request reject.
RECURSIVE bulkAdd(_, _, _)
bulkAdd(table, key, rows) ==
    IF rows = <<>> THEN [table |-> table, nextKey |-> key, failed |-> FALSE]
    ELSE IF AddRefused(table, Head(rows))
         THEN [bulkAdd(table, key, Tail(rows)) EXCEPT !.failed = TRUE]
         ELSE bulkAdd(AddMapping(table, Head(rows), key), key + 1, Tail(rows))

\* getOrCreateMappingsBatch(sourceSystem, sourceIds, entityType, importBatchId)
\* is entered and issues the query for the existing rows.
BatStart(sourceSystem, sourceIds, entityType, importBatchId) ==
    /\ bat.pc = "idle"
    /\ AllIdle
    /\ idCounter < MaxIds
    /\ clock < MaxClock
    /\ bat' = [IdleBatchCall EXCEPT
                 !.pc = "query", !.sourceSystem = sourceSystem,
                 !.sourceIds = sourceIds, !.entityType = entityType,
                 !.importBatchId = importBatchId, !.before = importMappings,
                 !.serial = OncePerElement(
                                StoreState(importMappings, nextMappingId, idCounter, clock),
                                sourceSystem, sourceIds, entityType, importBatchId)]
    /\ UNCHANGED <<srsVars, mapVars, callVars, entityVars, imp, rb, created, rolledBack,
                   tripVars, noteIn, noteOut, mediaVars, reviewVars, loadVars>>

\* The query resolves: the existing rows fill the map, a row is built for
\* every remaining list element, and the bulk insert is issued if there is any.
BatQuery ==
    /\ bat.pc = "query"
    /\ LET existing == SelectSeq(importMappings,
                           LAMBDA m : /\ m.sourceSystem = bat.sourceSystem
                                      /\ m.entityType = bat.entityType
                                      /\ \E i \in 1..Len(bat.sourceIds) :
                                             bat.sourceIds[i] = m.sourceId)
           found == MapSetAll(NoMap, existing)
           fresh == newSourceIds(bat.sourceIds, found)
           rows == [i \in 1..Len(fresh) |->
                       NewMapping(<<bat.sourceSystem, fresh[i], bat.entityType>>,
                                  generateId(bat.entityType, idCounter + i),
                                  bat.importBatchId, clock + 1)]
       IN /\ bat' = [bat EXCEPT !.pc = IF rows = <<>> THEN "done" ELSE "bulkAdd",
                                !.mappings = MapSetAll(found, rows),
                                !.newMappings = rows]
          /\ idCounter' = idCounter + Len(rows)
          /\ clock' = IF rows = <<>> THEN clock ELSE clock + 1
    /\ UNCHANGED <<srsVars, importMappings, nextMappingId, uniqueTriple, callVars,
                   entityVars, imp, rb, created, rolledBack, tripVars, noteIn, noteOut, mediaVars, reviewVars, loadVars>>

\* The bulk insert resolves.
BatBulkAdd ==
    /\ bat.pc = "bulkAdd"
    /\ LET added == bulkAdd(importMappings, nextMappingId, bat.newMappings)
       IN /\ importMappings' = added.table
          /\ nextMappingId' = added.nextKey
          /\ bat' = [bat EXCEPT !.pc = "done", !.threw = added.failed]
    /\ UNCHANGED <<srsVars, uniqueTriple, idCounter, clock, callVars, entityVars,
                   imp, rb, created, rolledBack, tripVars, noteIn, noteOut, mediaVars, reviewVars, loadVars>>

\* The caller takes the map, or the rejection.
BatReturn ==
    /\ bat.pc = "done"
    /\ bat' = IdleBatchCall
    /\ UNCHANGED <<srsVars, mapVars, callVars, entityVars, imp, rb, created, rolledBack,
                   tripVars, noteIn, noteOut, mediaVars, reviewVars, loadVars>>

----------------------------------------------------------------------------
(* Archive importer, pure part: lib/anki-import.ts *)

\* Markup is a sequence of tokens: words, white space, tags, [sound:..]
\* references and <img> tags.
Space == " "
Tags == {"<hr>", "<b>"}
Sounds == {"[sound:a.mp3]"}
ImageTags == {"<img:p.png>"}

EmptyData == [text |-> <<>>, audio |-> <<>>, images |-> <<>>]

IsVisible(tok) == tok \notin Tags /\ tok \notin Sounds /\ tok \notin ImageTags

\* replace(/\s+/g, " "): a run of white space becomes one space.
RECURSIVE CollapseSpaces(_)
CollapseSpaces(toks) ==
    IF Len(toks) <= 1 THEN toks
    ELSE IF toks[1] = Space /\ toks[2] = Space THEN CollapseSpaces(Tail(toks))
    ELSE <<toks[1]>> \o CollapseSpaces(Tail(toks))

\* String.prototype.trim
RECURSIVE TrimLeft(_)
TrimLeft(toks) ==
    IF toks # <<>> /\ toks[1] = Space THEN TrimLeft(Tail(toks)) ELSE toks

RECURSIVE TrimRight(_)
TrimRight(toks) ==
    IF toks # <<>> /\ toks[Len(toks)] = Space
    THEN TrimRight(SubSeq(toks, 1, Len(toks) - 1))
    ELSE toks

Trim(toks) == TrimRight(TrimLeft(toks))

\* processHtml: the media references in document order, and the text with
\* references and tags removed, white space collapsed and trimmed.
processHtml(html) ==
    IF html = <<>> THEN EmptyData
    ELSE [text |-> Trim(CollapseSpaces(SelectSeq(html, IsVisible))),
          audio |-> SelectSeq(html, LAMBDA tok : tok \in Sounds),
          images |-> SelectSeq(html, LAMBDA tok : tok \in ImageTags)]

\* Template items: a literal token, {{Field}}, {{#Field}}body{{/Field}},
\* {{^Field}}body{{/Field}}.
Lit(tok) == [kind |-> "lit", name |-> tok, body |-> <<>>]
Field(name) == [kind |-> "field", name |-> name, body |-> <<>>]
IfSet(name, body) == [kind |-> "if", name |-> name, body |-> body]
IfEmpty(name, body) == [kind |-> "unless", name |-> name, body |-> body]

\* fieldMap[fieldName] || ""
FieldValue(fieldMap, name) ==
    IF name \in DOMAIN fieldMap THEN fieldMap[name] ELSE <<>>

\* One pass of rendered.replace(regex, ...) over the sections of one kind.
\* A section of that kind is replaced by its body when the trimmed field
\* value is non-empty (kind "if") or empty (kind "unless"), and by nothing
\* otherwise. replace() goes on behind the text it put in, so a section of
\* the same kind inside a kept body is not looked at; the scan does run
\* through the body of a section of the other kind, whose opening mark the
\* expression does not match. (Sections nested under one field name, where
\* the lazy match ends at the inner closing mark, are not among the inputs.)
RECURSIVE ExpandSections(_, _, _)
ExpandSections(items, kind, fieldMap) ==
    IF items = <<>> THEN <<>>
    ELSE LET item == Head(items)
             rest == ExpandSections(Tail(items), kind, fieldMap)
             filled == Trim(FieldValue(fieldMap, item.name)) # <<>>
         IN IF item.kind = kind
            THEN IF (kind = "if") = filled THEN item.body \o rest ELSE rest
            ELSE IF item.kind \in {"if", "unless"}
            THEN <<[item EXCEPT !.body = ExpandSections(item.body, kind, fieldMap)]>>
                 \o rest
            ELSE <<item>> \o rest

\* The text of the marks of a section.
OpenMark(item) ==
    (IF item.kind = "if" THEN "{{#" ELSE "{{^") \o item.name \o "}}"
CloseMark(item) == "{{/" \o item.name \o "}}"

\* The {{Field}} pass: every field token becomes the field's value. The marks
\* of a section the earlier passes left in place are not field tokens (# ^ /
\* are not word characters) and stay as text around the section's body.
RECURSIVE SubstituteFields(_, _)
SubstituteFields(items, fieldMap) ==
    IF items = <<>> THEN <<>>
    ELSE LET item == Head(items)
             rest == SubstituteFields(Tail(items), fieldMap)
         IN IF item.kind = "field" THEN FieldValue(fieldMap, item.name) \o rest
            ELSE IF item.kind = "lit" THEN <<item.name>> \o rest
            ELSE <<OpenMark(item)>> \o SubstituteFields(item.body, fieldMap)
                 \o <<CloseMark(item)>> \o rest

renderTemplate(template, fieldMap) ==
    SubstituteFields(
        ExpandSections(ExpandSections(template, "if", fieldMap), "unless", fieldMap),
        fieldMap)

Directions == {"all", "forward", "reverse"}

\* templates.filter((template, index) => ...)
filteredTemplates(templates, cardDirection) ==
    IF cardDirection = "forward"
    THEN IF Len(templates) >= 1 THEN SubSeq(templates, 1, 1) ELSE <<>>
    ELSE IF cardDirection = "reverse"
    THEN IF Len(templates) >= 2 THEN SubSeq(templates, 2, 2) ELSE <<>>
    ELSE templates

FirstOr(seq, default) == IF seq = <<>> THEN default ELSE seq[1]
NoMedia == ""

\* The card a note yields, before it is given its internal id.
CardDraft(externalId, front, back, frontData, backData) ==
    [externalId |-> externalId, front |-> front, back |-> back,
     frontAudio |-> FirstOr(frontData.audio, NoMedia),
     backAudio |-> FirstOr(backData.audio, NoMedia),
     frontImage |-> FirstOr(frontData.images, NoMedia),
     backImage |-> FirstOr(backData.images, NoMedia)]

\* processNoteWithFallback: the first two fields, no template.
fallbackDrafts(note) ==
    LET processedFields == [i \in 1..Len(note.fields) |-> processHtml(note.fields[i])]
        frontData == IF Len(processedFields) >= 1 THEN processedFields[1] ELSE EmptyData
        backData == IF Len(processedFields) >= 2 THEN processedFields[2] ELSE frontData
        front == IF frontData.text # <<>> THEN frontData.text ELSE <<"No content">>
        back == IF backData.text # <<>> THEN backData.text
                ELSE IF frontData.text # <<>> THEN frontData.text
                ELSE <<"No content">>
    IN <<CardDraft(<<note.id>>, front, back, frontData, backData)>>

\* fieldMap[field.name] = fieldValues[index] || ""
noteFieldMap(note, model) ==
    [name \in {model.flds[i] : i \in 1..Len(model.flds)} |->
        LET i == CHOOSE j \in 1..Len(model.flds) :
                     /\ model.flds[j] = name
                     /\ \A k \in (j + 1)..Len(model.flds) : model.flds[k] # name
        IN IF i <= Len(note.fields) THEN note.fields[i] ELSE <<>>]

\* processNoteWithModel, the template loop from templateIndex on: a card per
\* filtered template, empty ones skipped, the external id built from the
\* note id and the index in the filtered list.
RECURSIVE modelDrafts(_, _, _, _)
modelDrafts(note, fieldMap, templates, templateIndex) ==
    IF templateIndex >= Len(templates) THEN <<>>
    ELSE LET template == templates[templateIndex + 1]
             renderedFront == renderTemplate(template.qfmt, fieldMap)
             fieldMapWithFront ==
                 [name \in DOMAIN fieldMap \cup {"FrontSide"} |->
                     IF name = "FrontSide" THEN renderedFront ELSE fieldMap[name]]
             renderedBack == renderTemplate(template.afmt, fieldMapWithFront)
             frontData == processHtml(renderedFront)
             backData == processHtml(renderedBack)
             rest == modelDrafts(note, fieldMap, templates, templateIndex + 1)
             front == IF frontData.text # <<>> THEN frontData.text
                      ELSE <<"(image only)">>
             back == IF backData.text # <<>> THEN backData.text
                     ELSE IF frontData.text # <<>> THEN frontData.text
                     ELSE <<"(image only)">>
         IN IF frontData.text = <<>> /\ frontData.images = <<>> /\ backData.text = <<>>
            THEN rest
            ELSE <<CardDraft(<<note.id, templateIndex>>, front, back,
                             frontData, backData)>> \o rest

\* One pass of the note loop of importAnkiDeck.
noteDrafts(note, models, cardDirection) ==
    IF note.fields = << <<>> >> THEN <<>>
    ELSE IF note.mid \notin DOMAIN models THEN fallbackDrafts(note)
    ELSE modelDrafts(note, noteFieldMap(note, models[note.mid]),
                     filteredTemplates(models[note.mid].tmpls, cardDirection), 0)

\* The cards the note loop stores for an archive, in order.
RECURSIVE archiveDrafts(_, _, _)
archiveDrafts(notes, models, cardDirection) ==
    IF notes = <<>> THEN <<>>
    ELSE noteDrafts(Head(notes), models, cardDirection)
             \o archiveDrafts(Tail(notes), models, cardDirection)

\* One pass of the note loop on its own: the note, the archive's models and
\* the card direction go in, the cards to store come out.
NoNoteInput == [note |-> [id |-> "", mid |-> "", fields |-> << <<>> >>],
                models |-> [m \in {} |-> 0], direction |-> "all"]
NotProcessed == [done |-> FALSE, drafts |-> <<>>]

ProcessNote ==
    /\ ~noteOut.done
    /\ noteOut' = [done |-> TRUE,
                   drafts |-> noteDrafts(noteIn.note, noteIn.models, noteIn.direction)]
    /\ UNCHANGED <<srsVars, mapVars, callVars, entityVars, imp, rb, created, rolledBack,
                   tripVars, noteIn, bat, mediaVars, reviewVars, loadVars>>

----------------------------------------------------------------------------
(* Archive importer, opening the archive: loadCollectionDatabase *)

\* A zip is a function from the names of its members to their bytes.  The
\* bytes of a database are the database in a wrapper; compressed bytes wrap
\* the bytes they decompress to.
NoZip == [name \in {} |-> <<>>]
DatabaseBytes(archive) == <<"sqlite", archive>>
Compressed(bytes) == <<"zstd", bytes>>
Garbage == <<"garbage">>

NotLoaded == [done |-> FALSE, error |-> "", fileName |-> "", decompressed |-> FALSE,
              database |-> <<>>]

\* decompress(compressedData) of fzstd: throws on bytes that are no zstd frame.
CanDecompress(bytes) == Len(bytes) = 2 /\ bytes[1] = "zstd"
decompress(bytes) == bytes[2]

\* Variant: the legacy member is preferred.
collectionFile_legacyFirst(zip) ==
    IF "collection.anki2" \in DOMAIN zip THEN "collection.anki2"
    ELSE IF "collection.anki21" \in DOMAIN zip THEN "collection.anki21"
    ELSE IF "collection.anki21b" \in DOMAIN zip THEN "collection.anki21b"
    ELSE ""

\* zip.file("collection.anki21b") || zip.file("collection.anki21") ||
\* zip.file("collection.anki2")
collectionFile(zip) ==
    IF "collection.anki21b" \in DOMAIN zip THEN "collection.anki21b"
    ELSE IF "collection.anki21" \in DOMAIN zip THEN "collection.anki21"
    ELSE IF "collection.anki2" \in DOMAIN zip THEN "collection.anki2"
    ELSE ""

\* loadCollectionDatabase(zip, SQLModule): the bytes handed to
\* new SQLModule.Database, or the error thrown.
loadCollectionDatabase(zip) ==
    LET fileName == collectionFile(zip)
        result == [NotLoaded EXCEPT !.done = TRUE, !.fileName = fileName]
    IN IF fileName = ""
       THEN [result EXCEPT !.error = "Invalid Anki package: no collection database found"]
       ELSE IF fileName = "collection.anki21b"
       THEN IF CanDecompress(zip[fileName])
            THEN [result EXCEPT !.decompressed = TRUE,
                                !.database = decompress(zip[fileName])]
            ELSE [result EXCEPT !.error = "Failed to decompress collection.anki21b file"]
       ELSE [result EXCEPT !.database = zip[fileName]]

\* The zip is opened once.
LoadCollection ==
    /\ ~loaded.done
    /\ loaded' = loadCollectionDatabase(zipIn)
    /\ UNCHANGED <<srsVars, mapVars, callVars, entityVars, imp, rb, created, rolledBack,
                   tripVars, noteIn, noteOut, bat, mediaVars, reviewVars, zipIn>>

----------------------------------------------------------------------------
(* Archive importer, storage steps: importAnkiDeck in lib/anki-import.ts *)

NoModels == [m \in {} |-> 0]
NoArchive == [deckName |-> "", deckId |-> None, notes |-> <<>>, models |-> NoModels]
NoDraft == CardDraft(None, <<>>, <<>>, EmptyData, EmptyData)

IdleImport ==
    [pc |-> "idle", archive |-> NoArchive, direction |-> "all",
     isReimport |-> FALSE, importBatchId |-> None, pendingBatch |-> None,
     newDeckId |-> None, existing |-> NoRow, mapping |-> NoRow,
     drafts |-> <<>>, cardId |-> None, owner |-> NoBatch,
     totalCardsCreated |-> 0, stats |-> <<0, 0, 0>>, calls |-> 0, failedAt |-> "",
     result |-> [ok |-> FALSE, deckName |-> "", cardCount |-> 0, deckId |-> None,
                 isReimport |-> FALSE, importBatchId |-> None]]

\* Nothing exported yet; store counts the stores the archives have met.
NoExport == [status |-> "none", archive |-> NoArchive, cardRows |-> <<>>, cardCount |-> 0,
             deckId |-> None, store |-> 1]

\* No read-write transaction holds the tables.
TablesFree == rb.pc = "idle"

Put(table, key, value) ==
    [k \in DOMAIN table \cup {key} |-> IF k = key THEN value ELSE table[k]]

Delete(table, key) == [k \in DOMAIN table \ {key} |-> table[k]]

\* createImportBatch: the row as first stored.
NewBatch(deckName, ankiDeckId, isReimport, now) ==
    [sourceSystem |-> "anki", importedAt |-> now, status |-> "in_progress",
     notesImported |-> 0, cardsImported |-> 0, decksImported |-> 0,
     metadata |-> [deckName |-> deckName, ankiDeckId |-> ankiDeckId,
                   isReimport |-> isReimport]]

\* The deck object of importAnkiDeck (externalId set) and of db.createDeck.
NewDeck(name, noteCount, externalId) ==
    [name |-> name, description |-> <<"Imported from Anki", noteCount>>,
     cardCount |-> 0, dueCount |-> 0, newCount |-> 0,
     importSource |-> IF externalId = None THEN "" ELSE "anki",
     externalId |-> externalId]

\* srsEngine.createCard plus the fields the importer sets.
NewCard(draft, deckId, now) ==
    [deckId |-> deckId, front |-> draft.front, back |-> draft.back,
     due |-> now, sched |-> createCard,
     importSource |-> "anki", externalId |-> draft.externalId,
     frontAudio |-> draft.frontAudio, backAudio |-> draft.backAudio,
     frontImage |-> draft.frontImage, backImage |-> draft.backImage]

CardsOfDeck(table, deckId) == {c \in DOMAIN table : table[c].deckId = deckId}

\* where("deckId").equals(deckId).toArray(): the deck's cards in key order.
RECURSIVE InKeyOrder(_)
InKeyOrder(ids) ==
    IF ids = {} THEN <<>>
    ELSE LET first == CHOOSE c \in ids : \A d \in ids : c[2] <= d[2]
         IN <<first>> \o InKeyOrder(ids \ {first})

\* Front and back text of the deck's cards, in key order.
DeckCards(table, deckId) ==
    LET ids == InKeyOrder(CardsOfDeck(table, deckId))
    IN [i \in 1..Len(ids) |-> <<table[ids[i]].front, table[ids[i]].back>>]

\* Variant: the catch block rethrows without marking the batch.
Caught_abandons(state) == [state EXCEPT !.pc = "error", !.failedAt = state.pc]

\* The catch block: the batch is marked failed when its id is known.
Caught(state) ==
    [state EXCEPT !.pc = IF state.importBatchId # None THEN "failing" ELSE "error",
                  !.failedAt = state.pc]

\* The note loop: the next card's mapping lookup, or the deck statistics.
NextDraft(state) ==
    [state EXCEPT !.pc = IF state.drafts = <<>> THEN "statsRead" ELSE "cardLookup"]

\* importAnkiDeck(file, cardDirection) up to its first storage access: the
\* archive is parsed; an archive without notes is rejected.
ImpStart(archive, cardDirection) ==
    /\ imp.pc = "idle"
    /\ imp.calls < MaxImports
    /\ LET entered == [IdleImport EXCEPT
                          !.calls = imp.calls + 1,
                          !.archive = archive, !.direction = cardDirection,
                          !.drafts = archiveDrafts(archive.notes, archive.models,
                                                   cardDirection)]
       IN IF archive.notes = <<>>
          THEN /\ imp' = [entered EXCEPT !.pc = "error"]
               /\ UNCHANGED idCounter
          ELSE IF archive.deckId # None
          THEN /\ imp' = [entered EXCEPT !.pc = "checkReimport"]
               /\ UNCHANGED idCounter
          ELSE /\ imp' = [entered EXCEPT !.pc = "createBatch",
                                         !.pendingBatch = generateId("batch", idCounter + 1)]
               /\ idCounter' = idCounter + 1
    /\ UNCHANGED <<srsVars, importMappings, nextMappingId, uniqueTriple, clock,
                   callVars, entityVars, rb, created, rolledBack, tripVars, pureVars>>

\* new SQLModule.Database(collectionData) and the extract* helpers: the
\* archive's deck, notes and models as read from the database.
Database(bytes) == bytes[2]

\* Variant: the batch row is written before the archive is opened.
ImpOpen_batchFirst(zip, cardDirection) ==
    LET opened == loadCollectionDatabase(zip)
    IN IF opened.error # ""
       THEN /\ imp.pc = "idle"
            /\ imp.calls < MaxImports
            /\ imp' = [IdleImport EXCEPT !.calls = imp.calls + 1, !.pc = "error",
                                         !.failedAt = opened.error]
            /\ importBatches' = Put(importBatches, generateId("batch", idCounter + 1),
                                    NewBatch("", None, FALSE, clock))
            /\ idCounter' = idCounter + 1
            /\ UNCHANGED <<srsVars, importMappings, nextMappingId, uniqueTriple, clock,
                           callVars, cards, decks, rb, created, rolledBack, tripVars,
                           pureVars>>
       ELSE ImpStart(Database(opened.database), cardDirection)

\* importAnkiDeck(file, cardDirection) from the zip on: the database member
\* is located and opened, then the call goes on as ImpStart describes; an
\* error of loadCollectionDatabase is caught with no batch id known.
ImpOpen(zip, cardDirection) ==
    LET opened == loadCollectionDatabase(zip)
    IN IF opened.error # ""
       THEN /\ imp.pc = "idle"
            /\ imp.calls < MaxImports
            /\ imp' = [IdleImport EXCEPT !.calls = imp.calls + 1, !.pc = "error",
                                         !.failedAt = opened.error]
            /\ UNCHANGED <<srsVars, mapVars, callVars, entityVars, rb, created,
                           rolledBack, tripVars, pureVars>>
       ELSE ImpStart(Database(opened.database), cardDirection)

\* getDeckImportBatch resolves; createImportBatch mints the batch id.
ImpCheckReimport ==
    /\ imp.pc = "checkReimport"
    /\ TablesFree
    /\ LET mapping == LookupMapping(importMappings, <<"anki", imp.archive.deckId, "deck">>)
           existingBatchId == IF mapping = NoRow THEN None ELSE mapping.importBatchId
       IN imp' = [imp EXCEPT !.pc = "createBatch",
                             !.isReimport = (existingBatchId # None),
                             !.pendingBatch = generateId("batch", idCounter + 1)]
    /\ idCounter' = idCounter + 1
    /\ UNCHANGED <<srsVars, importMappings, nextMappingId, uniqueTriple, clock,
                   callVars, entityVars, rb, created, rolledBack, tripVars, pureVars>>

\* db.importBatches.add resolves; the deck mapping lookup or db.createDeck follows.
ImpCreateBatch ==
    /\ imp.pc = "createBatch"
    /\ TablesFree
    /\ importBatches' = Put(importBatches, imp.pendingBatch,
                            NewBatch(imp.archive.deckName, imp.archive.deckId,
                                     imp.isReimport, clock))
    /\ IF imp.archive.deckId # None
       THEN /\ imp' = [imp EXCEPT !.pc = "deckLookup", !.importBatchId = imp.pendingBatch]
            /\ UNCHANGED idCounter
       ELSE /\ imp' = [imp EXCEPT !.pc = "createDeck", !.importBatchId = imp.pendingBatch,
                                  !.newDeckId = generateId("deck", idCounter + 1)]
            /\ idCounter' = idCounter + 1
    /\ UNCHANGED <<srsVars, importMappings, nextMappingId, uniqueTriple, clock,
                   callVars, cards, decks, rb, created, rolledBack, tripVars, pureVars>>

\* db.createDeck: a deck with a fresh id and no mapping row.
ImpCreateDeck ==
    /\ imp.pc = "createDeck"
    /\ TablesFree
    /\ decks' = Put(decks, imp.newDeckId,
                    NewDeck(imp.archive.deckName, Len(imp.archive.notes), None))
    /\ created' = created \cup {[by |-> imp.importBatchId, owner |-> NoBatch,
                                 type |-> "deck", id |-> imp.newDeckId]}
    /\ imp' = NextDraft(imp)
    /\ UNCHANGED <<srsVars, mapVars, callVars, importBatches, cards, rb, rolledBack, tripVars, pureVars>>

\* getOrCreateMapping for the deck or for the next card: the lookup resolves.
ImpLookup(at, triple, touch, add) ==
    /\ imp.pc = at
    /\ TablesFree
    /\ LET existing == LookupMapping(importMappings, triple)
       IN IF existing # NoRow
          THEN /\ imp' = [imp EXCEPT !.pc = touch, !.existing = existing]
               /\ UNCHANGED <<idCounter, clock>>
          ELSE /\ imp' = [imp EXCEPT
                            !.pc = add,
                            !.mapping = NewMapping(triple,
                                                   generateId(triple[3], idCounter + 1),
                                                   imp.importBatchId, clock + 1)]
               /\ idCounter' = idCounter + 1
               /\ clock' = clock + 1
    /\ UNCHANGED <<srsVars, importMappings, nextMappingId, uniqueTriple,
                   callVars, entityVars, rb, created, rolledBack, tripVars, pureVars>>

ImpDeckLookup ==
    ImpLookup("deckLookup", <<"anki", imp.archive.deckId, "deck">>, "deckTouch", "deckAdd")

ImpCardLookup ==
    /\ imp.drafts # <<>>
    /\ ImpLookup("cardLookup", <<"anki", Head(imp.drafts).externalId, "card">>,
                 "cardTouch", "cardAdd")

\* The existing row's timestamp update resolves.
ImpDeckTouch ==
    /\ imp.pc = "deckTouch"
    /\ TablesFree
    /\ importMappings' = TouchMapping(importMappings, imp.existing.id, clock + 1)
    /\ clock' = clock + 1
    /\ imp' = [imp EXCEPT !.pc = "getDeck", !.newDeckId = imp.existing.internalId,
                          !.owner = imp.existing.importBatchId]
    /\ UNCHANGED <<srsVars, nextMappingId, uniqueTriple, idCounter,
                   callVars, entityVars, rb, created, rolledBack, tripVars, pureVars>>

ImpCardTouch ==
    /\ imp.pc = "cardTouch"
    /\ TablesFree
    /\ importMappings' = TouchMapping(importMappings, imp.existing.id, clock + 1)
    /\ clock' = clock + 1
    /\ imp' = [imp EXCEPT !.pc = "cardInsert", !.cardId = imp.existing.internalId,
                          !.owner = imp.existing.importBatchId]
    /\ UNCHANGED <<srsVars, nextMappingId, uniqueTriple, idCounter,
                   callVars, entityVars, rb, created, rolledBack, tripVars, pureVars>>

\* The new row's add resolves, or the unique index rejects it.
ImpAdd(at, next, idField) ==
    /\ imp.pc = at
    /\ TablesFree
    /\ IF AddRefused(importMappings, imp.mapping)
       THEN /\ imp' = Caught(imp)
            /\ UNCHANGED <<importMappings, nextMappingId, created>>
       ELSE /\ importMappings' = AddMapping(importMappings, imp.mapping, nextMappingId)
            /\ nextMappingId' = nextMappingId + 1
            /\ created' = created \cup {[by |-> imp.importBatchId,
                                         owner |-> imp.importBatchId,
                                         type |-> "mapping", id |-> <<nextMappingId>>]}
            /\ imp' = [imp EXCEPT !.pc = next, ![idField] = imp.mapping.internalId,
                                  !.owner = imp.importBatchId]
    /\ UNCHANGED <<srsVars, uniqueTriple, idCounter, clock,
                   callVars, entityVars, rb, rolledBack, tripVars, pureVars>>

ImpDeckAdd == ImpAdd("deckAdd", "getDeck", "newDeckId")

ImpCardAdd == ImpAdd("cardAdd", "cardInsert", "cardId")

\* db.getDeck(newDeckId) resolves.
ImpGetDeck ==
    /\ imp.pc = "getDeck"
    /\ TablesFree
    /\ imp' = IF imp.newDeckId \notin DOMAIN decks THEN [imp EXCEPT !.pc = "deckInsert"]
              ELSE IF imp.isReimport THEN [imp EXCEPT !.pc = "deckUpdate"]
              ELSE NextDraft(imp)
    /\ UNCHANGED <<srsVars, mapVars, callVars, entityVars, rb, created, rolledBack, tripVars, pureVars>>

\* db.decks.add(deck) resolves.
ImpDeckInsert ==
    /\ imp.pc = "deckInsert"
    /\ TablesFree
    /\ IF imp.newDeckId \in DOMAIN decks
       THEN /\ imp' = Caught(imp)
            /\ UNCHANGED <<decks, created>>
       ELSE /\ decks' = Put(decks, imp.newDeckId,
                            NewDeck(imp.archive.deckName, Len(imp.archive.notes),
                                    imp.archive.deckId))
            /\ created' = created \cup {[by |-> imp.importBatchId, owner |-> imp.owner,
                                         type |-> "deck", id |-> imp.newDeckId]}
            /\ imp' = NextDraft(imp)
    /\ UNCHANGED <<srsVars, mapVars, callVars, importBatches, cards, rb, rolledBack, tripVars, pureVars>>

\* db.decks.update(newDeckId, {name, description}) resolves.
ImpDeckUpdate ==
    /\ imp.pc = "deckUpdate"
    /\ TablesFree
    /\ decks' = IF imp.newDeckId \in DOMAIN decks
                THEN [decks EXCEPT
                        ![imp.newDeckId].name = imp.archive.deckName,
                        ![imp.newDeckId].description =
                            <<"Re-imported from Anki", Len(imp.archive.notes)>>]
                ELSE decks
    /\ imp' = NextDraft(imp)
    /\ UNCHANGED <<srsVars, mapVars, callVars, importBatches, cards, rb,
                   created, rolledBack, tripVars, pureVars>>

\* db.cards.add(card) resolves: a card whose id is already stored is refused.
ImpCardInsert ==
    /\ imp.pc = "cardInsert"
    /\ TablesFree
    /\ IF imp.cardId \in DOMAIN cards
       THEN /\ imp' = Caught(imp)
            /\ UNCHANGED <<cards, created>>
       ELSE /\ cards' = Put(cards, imp.cardId,
                            NewCard(Head(imp.drafts), imp.newDeckId, clock))
            /\ created' = created \cup {[by |-> imp.importBatchId, owner |-> imp.owner,
                                         type |-> "card", id |-> imp.cardId]}
            /\ imp' = NextDraft([imp EXCEPT !.drafts = Tail(@),
                                            !.totalCardsCreated = @ + 1])
    /\ UNCHANGED <<srsVars, mapVars, callVars, importBatches, decks, rb, rolledBack, tripVars, pureVars>>

\* db.updateDeckStats: the deck's cards are read.
ImpStatsRead ==
    /\ imp.pc = "statsRead"
    /\ TablesFree
    /\ LET ids == CardsOfDeck(cards, imp.newDeckId)
       IN imp' = [imp EXCEPT
                    !.pc = "statsWrite",
                    !.stats = <<Cardinality(ids),
                                Cardinality({c \in ids : cards[c].sched.status = "new"}),
                                Cardinality({c \in ids : cards[c].due <= clock})>>]
    /\ UNCHANGED <<srsVars, mapVars, callVars, entityVars, rb, created, rolledBack, tripVars, pureVars>>

\* db.updateDeckStats: the counts are written.
ImpStatsWrite ==
    /\ imp.pc = "statsWrite"
    /\ TablesFree
    /\ decks' = IF imp.newDeckId \in DOMAIN decks
                THEN [decks EXCEPT ![imp.newDeckId].cardCount = imp.stats[1],
                                   ![imp.newDeckId].newCount = imp.stats[2],
                                   ![imp.newDeckId].dueCount = imp.stats[3]]
                ELSE decks
    /\ imp' = [imp EXCEPT !.pc = "complete"]
    /\ UNCHANGED <<srsVars, mapVars, callVars, importBatches, cards, rb,
                   created, rolledBack, tripVars, pureVars>>

\* completeImportBatch resolves and the result is returned.
ImpComplete ==
    /\ imp.pc = "complete"
    /\ TablesFree
    /\ importBatches' =
           IF imp.importBatchId \in DOMAIN importBatches
           THEN [importBatches EXCEPT
                   ![imp.importBatchId].status = "completed",
                   ![imp.importBatchId].notesImported = Len(imp.archive.notes),
                   ![imp.importBatchId].cardsImported = imp.totalCardsCreated,
                   ![imp.importBatchId].decksImported = 1]
           ELSE importBatches
    /\ imp' = [imp EXCEPT
                 !.pc = "done",
                 !.result = [ok |-> TRUE, deckName |-> imp.archive.deckName,
                             cardCount |-> imp.totalCardsCreated,
                             deckId |-> imp.newDeckId, isReimport |-> imp.isReimport,
                             importBatchId |-> imp.importBatchId]]
    /\ UNCHANGED <<srsVars, mapVars, callVars, cards, decks, rb, created, rolledBack, tripVars, pureVars>>

ImportSteps ==
    {"checkReimport", "createBatch", "createDeck", "deckLookup", "deckTouch", "deckAdd",
     "getDeck", "deckInsert", "deckUpdate", "cardLookup", "cardTouch", "cardAdd",
     "cardInsert", "statsRead", "statsWrite", "complete"}

\* The requests made while one note is processed.
NoteSteps == {"cardLookup", "cardTouch", "cardAdd", "cardInsert"}

\* A storage request of the import is rejected (quota, closed database).
ImpStorageError ==
    /\ imp.pc \in ImportSteps
    /\ TablesFree
    /\ imp' = Caught(imp)
    /\ UNCHANGED <<srsVars, mapVars, callVars, entityVars, rb, created, rolledBack, tripVars, pureVars>>

\* failImportBatch resolves and the error is rethrown.
ImpFailBatch ==
    /\ imp.pc = "failing"
    /\ TablesFree
    /\ importBatches' =
           IF imp.importBatchId \in DOMAIN importBatches
           THEN [importBatches EXCEPT ![imp.importBatchId].status = "failed"]
           ELSE importBatches
    /\ imp' = [imp EXCEPT !.pc = "error"]
    /\ UNCHANGED <<srsVars, mapVars, callVars, cards, decks, rb, created, rolledBack, tripVars, pureVars>>

\* The caller has the result or the error.
ImpReturn ==
    /\ imp.pc \in {"done", "error"}
    /\ imp' = [IdleImport EXCEPT !.calls = imp.calls]
    /\ imported' = Append(imported,
                          [archive |-> imp.archive, direction |-> imp.direction,
                           ok |-> imp.pc = "done", result |-> imp.result,
                           store |-> exported.store,
                           deckName |-> IF imp.newDeckId \in DOMAIN decks
                                        THEN decks[imp.newDeckId].name ELSE "",
                           deckCards |-> DeckCards(cards, imp.newDeckId)])
    /\ UNCHANGED <<srsVars, mapVars, callVars, entityVars, rb, created, rolledBack,
                   exported, pureVars>>

ImpStep ==
    \/ ImpCheckReimport \/ ImpCreateBatch \/ ImpCreateDeck
    \/ ImpDeckLookup \/ ImpDeckTouch \/ ImpDeckAdd
    \/ ImpGetDeck \/ ImpDeckInsert \/ ImpDeckUpdate
    \/ ImpCardLookup \/ ImpCardTouch \/ ImpCardAdd \/ ImpCardInsert
    \/ ImpStatsRead \/ ImpStatsWrite \/ ImpComplete
    \/ ImpFailBatch \/ ImpReturn

----------------------------------------------------------------------------
(* Archive importer, media: extractMediaFiles and storeMediaFile *)

\* The object store "media", keyed by fileName, and the media part of an
\* archive: the manifest (numeric name -> file name) and the files stored
\* under numeric names, in archive order.
NoMediaFiles == [fileName \in {} |-> ""]
NoMediaArchive == [mapping |-> NoMediaFiles, files |-> <<>>]

IdleExtract == [pc |-> "idle", archive |-> NoMediaArchive, todo |-> <<>>, calls |-> 0,
                manifests |-> {}]

\* mediaMapping[mediaNumber] || mediaNumber
actualFileName(mediaMapping, mediaNumber) ==
    IF mediaNumber \in DOMAIN mediaMapping /\ mediaMapping[mediaNumber] # ""
    THEN mediaMapping[mediaNumber]
    ELSE mediaNumber

\* storeMediaFile(fileName, data): store.put({fileName, blob}).
storeMediaFile(store, fileName, data) == Put(store, fileName, data)

\* The loop of extractMediaFiles moves on to the next file, or the function
\* returns; the manifest of a finished extraction is remembered.
AfterFile(state) ==
    IF Len(state.todo) > 1
    THEN [state EXCEPT !.pc = "storeNumber", !.todo = Tail(state.todo)]
    ELSE [IdleExtract EXCEPT
            !.calls = state.calls,
            !.manifests = state.manifests \cup
                {<<n, state.archive.mapping[n]>> : n \in DOMAIN state.archive.mapping}]

\* extractMediaFiles(zip): the manifest is parsed and the numeric entries listed.
ExtStart(archive) ==
    /\ ext.pc = "idle"
    /\ ext.calls < MaxImports
    /\ LET entered == [ext EXCEPT !.archive = archive, !.todo = archive.files,
                                  !.calls = ext.calls + 1]
       IN ext' = IF archive.files = <<>>
                 THEN AfterFile(entered)
                 ELSE [entered EXCEPT !.pc = "storeNumber"]
    /\ UNCHANGED <<srsVars, mapVars, callVars, entityVars, imp, rb, created, rolledBack,
                   tripVars, noteIn, noteOut, bat, mediaStore, reviewVars, loadVars>>

\* storeMediaFile(mediaNumber, mediaData) resolves.
ExtStoreNumber ==
    /\ ext.pc = "storeNumber"
    /\ LET file == Head(ext.todo)
       IN /\ mediaStore' = storeMediaFile(mediaStore, file.name, file.data)
          /\ ext' = IF actualFileName(ext.archive.mapping, file.name) # file.name
                    THEN [ext EXCEPT !.pc = "storeName"]
                    ELSE AfterFile(ext)
    /\ UNCHANGED <<srsVars, mapVars, callVars, entityVars, imp, rb, created, rolledBack,
                   tripVars, noteIn, noteOut, bat, reviewVars, loadVars>>

\* storeMediaFile(actualFileName, mediaData) resolves.
ExtStoreName ==
    /\ ext.pc = "storeName"
    /\ LET file == Head(ext.todo)
       IN mediaStore' = storeMediaFile(mediaStore,
                                       actualFileName(ext.archive.mapping, file.name),
                                       file.data)
    /\ ext' = AfterFile(ext)
    /\ UNCHANGED <<srsVars, mapVars, callVars, entityVars, imp, rb, created, rolledBack,
                   tripVars, noteIn, noteOut, bat, reviewVars, loadVars>>

----------------------------------------------------------------------------
(* Review recording: SRSDatabase.recordReview in storage/database.ts *)

IdleReview ==
    [pc |-> "idle", cardId |-> None, rating |-> 0, threw |-> FALSE,
     before |-> [cards |-> [k \in {} |-> 0], sessions |-> <<>>],
     tx |-> [cards |-> [k \in {} |-> 0], sessions |-> <<>>]]

\* recordReview(cardId, rating, duration): the transaction over cards and
\* sessions opens.
RevBegin(cardId, rating) ==
    /\ rev.pc = "idle"
    /\ Len(sessions) < MaxReviews
    /\ rev' = [IdleReview EXCEPT !.pc = "get", !.cardId = cardId, !.rating = rating,
                                 !.before = [cards |-> cards, sessions |-> sessions],
                                 !.tx = [cards |-> cards, sessions |-> sessions]]
    /\ UNCHANGED <<srsVars, mapVars, callVars, entityVars, imp, rb, created, rolledBack,
                   tripVars, noteIn, noteOut, bat, mediaVars, sessions, loadVars>>

\* cards.get resolves: a missing card makes the transaction body throw, which
\* aborts the transaction.
RevGet ==
    /\ rev.pc = "get"
    /\ rev' = IF rev.cardId \in DOMAIN rev.tx.cards
              THEN [rev EXCEPT !.pc = "update"]
              ELSE [rev EXCEPT !.pc = "done", !.threw = TRUE, !.tx = rev.before]
    /\ UNCHANGED <<srsVars, mapVars, callVars, entityVars, imp, rb, created, rolledBack,
                   tripVars, noteIn, noteOut, bat, mediaVars, sessions, loadVars>>

\* Variant: the card is written outside the transaction.
RevUpdate_autocommit ==
    /\ rev.pc = "update"
    /\ rev' = [rev EXCEPT !.pc = "add"]
    /\ cards' = [cards EXCEPT ![rev.cardId].sched =
                     calculateNextReview(cards[rev.cardId].sched, rev.rating)]
    /\ UNCHANGED <<srsVars, mapVars, callVars, importBatches, decks, imp, rb, created,
                   rolledBack, tripVars, noteIn, noteOut, bat, mediaVars, sessions, loadVars>>

\* calculateNextReview and cards.update(cardId, result.card), in the transaction.
RevUpdate ==
    /\ rev.pc = "update"
    /\ rev' = [rev EXCEPT
                 !.pc = "add",
                 !.tx.cards[rev.cardId].sched =
                     calculateNextReview(rev.tx.cards[rev.cardId].sched, rev.rating)]
    /\ UNCHANGED <<srsVars, mapVars, callVars, entityVars, imp, rb, created, rolledBack,
                   tripVars, noteIn, noteOut, bat, mediaVars, sessions, loadVars>>

\* sessions.add resolves in the transaction.
RevAdd ==
    /\ rev.pc = "add"
    /\ rev' = [rev EXCEPT
                 !.pc = "commit",
                 !.tx.sessions = Append(@, [cardId |-> rev.cardId, rating |-> rev.rating])]
    /\ UNCHANGED <<srsVars, mapVars, callVars, entityVars, imp, rb, created, rolledBack,
                   tripVars, noteIn, noteOut, bat, mediaVars, sessions, loadVars>>

\* The transaction completes: both writes become visible together.
RevCommit ==
    /\ rev.pc = "commit"
    /\ cards' = rev.tx.cards
    /\ sessions' = rev.tx.sessions
    /\ rev' = [rev EXCEPT !.pc = "done"]
    /\ UNCHANGED <<srsVars, mapVars, callVars, importBatches, decks, imp, rb, created,
                   rolledBack, tripVars, noteIn, noteOut, bat, mediaVars, loadVars>>

\* A request of the transaction is rejected, or the page goes away: the
\* transaction aborts and none of its writes is kept.
RevAbort ==
    /\ rev.pc \in {"update", "add", "commit"}
    /\ rev' = [rev EXCEPT !.pc = "done", !.threw = TRUE, !.tx = rev.before]
    /\ UNCHANGED <<srsVars, mapVars, callVars, entityVars, imp, rb, created, rolledBack,
                   tripVars, noteIn, noteOut, bat, mediaVars, sessions, loadVars>>

\* The caller has the result or the error.
RevReturn ==
    /\ rev.pc = "done"
    /\ rev' = IdleReview
    /\ UNCHANGED <<srsVars, mapVars, callVars, entityVars, imp, rb, created, rolledBack,
                   tripVars, noteIn, noteOut, bat, mediaVars, sessions, loadVars>>

\* db.deleteCard(cardId), while no transaction holds the cards table.
DbDeleteCard(cardId) ==
    /\ rev.pc = "idle"
    /\ cardId \in DOMAIN cards
    /\ cards' = Delete(cards, cardId)
    /\ UNCHANGED <<srsVars, mapVars, callVars, importBatches, decks, procVars>>

----------------------------------------------------------------------------
(* rollbackImportBatch: services/import-mapping-service.ts *)

EmptyTable == [k \in {} |-> 0]

Durable ==
    [importMappings |-> importMappings, importBatches |-> importBatches,
     cards |-> cards, decks |-> decks]

IdleRollback ==
    [pc |-> "idle", batchId |-> None, mappings |-> <<>>,
     tx |-> [importMappings |-> <<>>, importBatches |-> EmptyTable,
             cards |-> EmptyTable, decks |-> EmptyTable]]

\* Variant: the writes made before the abort stay in the tables.
AbortTransaction_keepsWrites(durable, working) == working

\* db.transaction("rw", ...) that does not complete: nothing it wrote is kept.
AbortTransaction(durable, working) == durable

\* db.transaction("rw", ...) that completes: all it wrote becomes visible.
CommitTransaction(durable, working) == working

\* rollbackImportBatch(batchId): the transaction over the four tables opens.
RbBegin(batchId) ==
    /\ rb.pc = "idle"
    /\ rb' = [rb EXCEPT !.pc = "getMappings", !.batchId = batchId, !.tx = Durable]
    /\ UNCHANGED <<srsVars, mapVars, callVars, entityVars, imp, created, rolledBack, tripVars, pureVars>>

\* Rollback of a batch whose import call has returned.
RbBeginAfterImport(batchId) == imp.pc = "idle" /\ RbBegin(batchId)

\* getMappingsByBatch(batchId) resolves.
RbGetMappings ==
    /\ rb.pc = "getMappings"
    /\ rb' = [rb EXCEPT
                !.pc = "deleteEntities",
                !.mappings = SelectSeq(rb.tx.importMappings,
                                       LAMBDA m : m.importBatchId = rb.batchId)]
    /\ UNCHANGED <<srsVars, mapVars, callVars, entityVars, imp, created, rolledBack, tripVars, pureVars>>

\* One pass of the loop: the card or deck of the next mapping is deleted.
RbDeleteEntity ==
    /\ rb.pc = "deleteEntities"
    /\ rb.mappings # <<>>
    /\ LET mapping == Head(rb.mappings)
       IN rb' = [rb EXCEPT
                   !.mappings = Tail(@),
                   !.tx.cards = IF mapping.entityType = "card"
                                THEN Delete(@, mapping.internalId) ELSE @,
                   !.tx.decks = IF mapping.entityType = "deck"
                                THEN Delete(@, mapping.internalId) ELSE @]
    /\ UNCHANGED <<srsVars, mapVars, callVars, entityVars, imp, created, rolledBack, tripVars, pureVars>>

\* where("importBatchId").equals(batchId).delete() resolves.
RbDeleteMappings ==
    /\ rb.pc = "deleteEntities"
    /\ rb.mappings = <<>>
    /\ rb' = [rb EXCEPT
                !.pc = "markBatch",
                !.tx.importMappings =
                    SelectSeq(@, LAMBDA m : m.importBatchId # rb.batchId)]
    /\ UNCHANGED <<srsVars, mapVars, callVars, entityVars, imp, created, rolledBack, tripVars, pureVars>>

\* db.importBatches.update(batchId, {status: "rolled_back"}) resolves.
RbMarkBatch ==
    /\ rb.pc = "markBatch"
    /\ rb' = [rb EXCEPT
                !.pc = "commit",
                !.tx.importBatches =
                    IF rb.batchId \in DOMAIN @
                    THEN [@ EXCEPT ![rb.batchId].status = "rolled_back"] ELSE @]
    /\ UNCHANGED <<srsVars, mapVars, callVars, entityVars, imp, created, rolledBack, tripVars, pureVars>>

Install(tables) ==
    /\ importMappings' = tables.importMappings
    /\ importBatches' = tables.importBatches
    /\ cards' = tables.cards
    /\ decks' = tables.decks

\* The transaction completes and rollbackImportBatch returns.
RbCommit ==
    /\ rb.pc = "commit"
    /\ Install(CommitTransaction(Durable, rb.tx))
    /\ rolledBack' = rolledBack \cup {rb.batchId}
    /\ rb' = IdleRollback
    /\ UNCHANGED <<srsVars, nextMappingId, uniqueTriple, idCounter, clock,
                   callVars, imp, created, tripVars, pureVars>>

\* The page goes away inside the transaction.
RbCrash ==
    /\ rb.pc # "idle"
    /\ Install(AbortTransaction(Durable, rb.tx))
    /\ rb' = IdleRollback
    /\ UNCHANGED <<srsVars, nextMappingId, uniqueTriple, idCounter, clock,
                   callVars, imp, created, rolledBack, tripVars, pureVars>>

RbStep == RbGetMappings \/ RbDeleteEntity \/ RbDeleteMappings \/ RbMarkBatch \/ RbCommit

----------------------------------------------------------------------------
(* Archive exporter: exportAnkiDeck in lib/anki-export.ts *)

\* getExternalId: the source id of the first row that carries the internal
\* id and the source system, or null.
getExternalId(table, internalId, sourceSystem) ==
    LET rows == SelectSeq(table, LAMBDA m : /\ m.internalId = internalId
                                            /\ m.sourceSystem = sourceSystem)
    IN IF rows = <<>> THEN None ELSE Head(rows).sourceId

\* String(Date.now())
Timestamp(now) == ToString(now)

\* insertBasicModel: fields Front and Back, one template whose answer side
\* repeats the question side above a rule.
BasicModel ==
    [flds |-> <<"Front", "Back">>,
     tmpls |-> << [qfmt |-> <<Field("Front")>>,
                   afmt |-> <<Field("FrontSide"), Lit(Space), Lit(Space), Lit("<hr>"),
                              Lit(Space), Lit(Space), Field("Back")>>] >>]

\* The external id the card loop works with: the mapping row's, else the
\* card's own field.
CardExternalId(table, cardId, card) ==
    IF getExternalId(table, cardId, "anki") # None
    THEN getExternalId(table, cardId, "anki")
    ELSE card.externalId

\* Variant: every card is exported under a generated note id.
ExportNoteId_alwaysFresh(externalId, baseTimestamp, cardIndex) ==
    Timestamp(baseTimestamp + cardIndex * 2)

\* The note id a card is exported under: the part of the external id before
\* the underscore, or a generated even number.
ExportNoteId(externalId, baseTimestamp, cardIndex) ==
    IF externalId # None THEN externalId[1]
    ELSE Timestamp(baseTimestamp + cardIndex * 2)

\* The integer id of a card's row: generated for a card without external id
\* (odd numbers) and for an external id with an underscore, parsed from the
\* external id otherwise.
ExportCardId(externalId, baseTimestamp, cardIndex) ==
    IF externalId = None THEN Timestamp(baseTimestamp + cardIndex * 2 + 1)
    ELSE IF Len(externalId) > 1 THEN Timestamp(baseTimestamp + cardIndex)
    ELSE externalId[1]

\* insertCard for every card of the deck, in order.
ExportedCards(table, cardTable, ids, ankiDeckId, baseTimestamp) ==
    [i \in 1..Len(ids) |->
        LET externalId == CardExternalId(table, ids[i], cardTable[ids[i]])
        IN [id |-> ExportCardId(externalId, baseTimestamp, i - 1),
            nid |-> ExportNoteId(externalId, baseTimestamp, i - 1),
            did |-> ankiDeckId]]

\* INTEGER PRIMARY KEY: an insert under an id already in the table fails.
PrimaryKeyConflict(rows) ==
    \E i, j \in 1..Len(rows) : i < j /\ rows[i].id = rows[j].id

\* Variant: a note row is written for the first card only.
ExportedNotes_firstOnly(table, cardTable, ids, modelId, baseTimestamp) ==
    << [id |-> ExportNoteId(CardExternalId(table, ids[1], cardTable[ids[1]]),
                            baseTimestamp, 0),
        mid |-> modelId,
        fields |-> <<cardTable[ids[1]].front, cardTable[ids[1]].back>>] >>

\* insertNote for the first card of each note id: the card's front and back
\* are the note's two fields.
ExportedNotes(table, cardTable, ids, modelId, baseTimestamp) ==
    LET noteId == [i \in 1..Len(ids) |->
                      ExportNoteId(CardExternalId(table, ids[i], cardTable[ids[i]]),
                                   baseTimestamp, i - 1)]
        firsts == SelectSeq([i \in 1..Len(ids) |-> i],
                            LAMBDA i : \A j \in 1..(i - 1) : noteId[j] # noteId[i])
    IN [k \in 1..Len(firsts) |->
           [id |-> noteId[firsts[k]], mid |-> modelId,
            fields |-> <<cardTable[ids[firsts[k]]].front,
                         cardTable[ids[firsts[k]]].back>>]]

\* Variant: only a missing deck is refused.
ExportRefused_missingOnly(deckTable, cardTable, deckId) == deckId \notin DOMAIN deckTable

\* "Deck not found" and "Deck has no cards to export".
ExportRefused(deckTable, cardTable, deckId) ==
    deckId \notin DOMAIN deckTable \/ CardsOfDeck(cardTable, deckId) = {}

\* exportAnkiDeck(deckId): the archive written, or the error.
exportAnkiDeck(table, deckTable, cardTable, deckId, now) ==
    LET ids == InKeyOrder(CardsOfDeck(cardTable, deckId))
        failed == [NoExport EXCEPT !.status = "error", !.deckId = deckId]
    IN IF ExportRefused(deckTable, cardTable, deckId)
       THEN failed
       ELSE LET deck == deckTable[deckId]
                mapped == getExternalId(table, deckId, "anki")
                ankiDeckId == IF mapped # None THEN mapped
                              ELSE IF deck.externalId # None THEN deck.externalId
                              ELSE <<Timestamp(now)>>
                modelId == Timestamp(now)
                noteRows == ExportedNotes(table, cardTable, ids, modelId, now)
                cardRows == ExportedCards(table, cardTable, ids, ankiDeckId, now)
            IN IF PrimaryKeyConflict(noteRows) \/ PrimaryKeyConflict(cardRows)
               THEN failed
               ELSE [status |-> "ok",
                     archive |-> [deckName |-> deck.name, deckId |-> ankiDeckId,
                                  notes |-> noteRows,
                                  models |-> [m \in {modelId} |-> BasicModel]],
                     cardRows |-> cardRows,
                     cardCount |-> Len(ids), deckId |-> deckId, store |-> 1]

\* db.createCard(front, back, deckId): the user adds a card of their own.
DbCreateCard(deckId) ==
    /\ imp.pc = "idle"
    /\ TablesFree
    /\ exported.store = 1
    /\ Cardinality({c \in DOMAIN cards : cards[c].importSource = ""}) < MaxNative
    /\ cards' = Put(cards, generateId("card", idCounter + 1),
                    [NewCard(CardDraft(None, <<"Q">>, <<"A">>, EmptyData, EmptyData),
                             deckId, clock)
                       EXCEPT !.importSource = ""])
    /\ idCounter' = idCounter + 1
    /\ UNCHANGED <<srsVars, importMappings, nextMappingId, uniqueTriple, clock, callVars,
                   importBatches, decks, procVars>>

\* db.createDeck(name): the user adds a deck of their own.
DbCreateDeck(name) ==
    /\ imp.pc = "idle"
    /\ TablesFree
    /\ exported.store = 1
    /\ Cardinality({d \in DOMAIN decks : decks[d].name = name}) < MaxNative
    /\ decks' = Put(decks, generateId("deck", idCounter + 1), [NewDeck(name, 0, None) EXCEPT !.description = <<>>])
    /\ idCounter' = idCounter + 1
    /\ UNCHANGED <<srsVars, importMappings, nextMappingId, uniqueTriple, clock, callVars,
                   importBatches, cards, procVars>>

\* The user exports a deck while no import runs.
ExportDeck(deckId) ==
    /\ imp.pc = "idle"
    /\ TablesFree
    /\ exported.status # "ok"
    /\ exported' = exportAnkiDeck(importMappings, decks, cards, deckId, clock)
    /\ UNCHANGED <<srsVars, mapVars, callVars, entityVars, imp, rb, created,
                   rolledBack, imported, pureVars>>

\* A new database: every table empty; ids and the clock go on.
FreshStore ==
    /\ imp.pc = "idle"
    /\ TablesFree
    /\ exported.status = "ok"
    /\ exported.store = 1
    /\ exported' = [exported EXCEPT !.store = 2]
    /\ importMappings' = <<>>
    /\ nextMappingId' = 1
    /\ importBatches' = EmptyTable
    /\ cards' = EmptyTable
    /\ decks' = EmptyTable
    /\ created' = {}
    /\ rolledBack' = {}
    /\ UNCHANGED <<srsVars, uniqueTriple, idCounter, clock, callVars, imp, rb, imported,
                   pureVars>>

\* The exported archive is imported into the new database.
ImpStartExported(cardDirection) ==
    /\ exported.status = "ok"
    /\ exported.store = 2
    /\ ImpStart(exported.archive, cardDirection)

----------------------------------------------------------------------------
(* Mapping service, lookups: getInternalId, getExternalId, getDeckImportBatch *)

\* mapping ? mapping.internalId : null
getInternalId(table, sourceSystem, sourceId, entityType) ==
    LET mapping == LookupMapping(table, <<sourceSystem, sourceId, entityType>>)
    IN IF mapping = NoRow THEN None ELSE mapping.internalId

\* mapping?.importBatchId || null
getDeckImportBatch(table, sourceSystem, sourceDeckId) ==
    LET mapping == LookupMapping(table, <<sourceSystem, sourceDeckId, "deck">>)
    IN IF mapping = NoRow THEN None ELSE mapping.importBatchId

\* A lookup is entered and issues its one query.
LookupStart(p, query) ==
    /\ call[p].pc = "idle"
    /\ call' = [call EXCEPT ![p] = [IdleCall EXCEPT !.pc = "query", !.triple = query]]
    /\ UNCHANGED <<srsVars, mapVars, returned, entityVars, procVars>>

GetInternalId(p, sourceSystem, sourceId, entityType) ==
    LookupStart(p, <<"getInternalId", sourceSystem, sourceId, entityType>>)

GetExternalId(p, internalId, sourceSystem) ==
    LookupStart(p, <<"getExternalId", internalId, sourceSystem>>)

GetDeckImportBatch(p, sourceSystem, sourceDeckId) ==
    LookupStart(p, <<"getDeckImportBatch", sourceSystem, sourceDeckId>>)

\* What the query of a lookup gives on the table as it stands.
LookupResult(table, query) ==
    IF query[1] = "getInternalId"
    THEN getInternalId(table, query[2], query[3], query[4])
    ELSE IF query[1] = "getExternalId"
    THEN getExternalId(table, query[2], query[3])
    ELSE getDeckImportBatch(table, query[2], query[3])

\* Variant: the lookup stamps the row it reads, as getOrCreateMapping does.
LookupResolve_touch(p) ==
    /\ call[p].pc = "query"
    /\ clock < MaxClock
    /\ call' = [call EXCEPT ![p].pc = "done",
                            ![p].ret = LookupResult(importMappings, call[p].triple)]
    /\ importMappings' =
           [i \in 1..Len(importMappings) |->
               IF importMappings[i].internalId
                      = LookupResult(importMappings, call[p].triple)
               THEN [importMappings[i] EXCEPT !.updatedAt = clock + 1]
               ELSE importMappings[i]]
    /\ UNCHANGED <<srsVars, nextMappingId, uniqueTriple, idCounter, clock, returned,
                   entityVars, procVars>>

\* The query resolves and the lookup has its result.
LookupResolve(p) ==
    /\ call[p].pc = "query"
    /\ call' = [call EXCEPT ![p].pc = "done",
                            ![p].ret = LookupResult(importMappings, call[p].triple)]
    /\ UNCHANGED <<srsVars, mapVars, returned, entityVars, procVars>>

----------------------------------------------------------------------------
(* Initial states and specifications *)

InitMappings ==
    /\ importMappings = <<>>
    /\ nextMappingId = 1
    /\ uniqueTriple \in BOOLEAN
    /\ idCounter = 0
    /\ clock = 0

InitCalls ==
    /\ call = [p \in Callers |-> IdleCall]
    /\ returned = [t \in Triples |-> None]

InitEntities ==
    /\ importBatches = EmptyTable
    /\ cards = EmptyTable
    /\ decks = EmptyTable
    /\ imp = IdleImport
    /\ rb = IdleRollback
    /\ created = {}
    /\ rolledBack = {}
    /\ imported = <<>>
    /\ exported = NoExport

\* Archives handed to importAnkiDeck.
PlainTemplate == [qfmt |-> <<Field("Front")>>, afmt |-> <<Field("Back")>>]
ForwardTemplate ==
    [qfmt |-> <<Field("Front")>>,
     afmt |-> <<Field("FrontSide"), Lit("<hr>"), Field("Back")>>]
ReverseTemplate ==
    [qfmt |-> <<Field("Back")>>,
     afmt |-> <<Field("FrontSide"), Lit("<hr>"), Field("Front")>>]

PlainModel == [flds |-> <<"Front", "Back">>, tmpls |-> <<PlainTemplate>>]
TwoWayModel == [flds |-> <<"Front", "Back">>, tmpls |-> <<ForwardTemplate, ReverseTemplate>>]

NoteQA(id, mid) == [id |-> id, mid |-> mid, fields |-> << <<"Q">>, <<"A">> >>]

ArchiveWithDeck ==
    [deckName |-> "Spanish", deckId |-> <<"D1">>,
     notes |-> <<NoteQA("1001", "m2")>>, models |-> [m \in {"m2"} |-> TwoWayModel]]
ArchiveRenamed == [ArchiveWithDeck EXCEPT !.deckName = "Castellano"]
ArchiveNoDeck ==
    [deckName |-> "Imported Deck", deckId |-> None,
     notes |-> <<NoteQA("1002", "m9")>>, models |-> NoModels]
ArchiveEmpty == [ArchiveNoDeck EXCEPT !.notes = <<>>]

ArchiveInputs == {ArchiveWithDeck, ArchiveRenamed, ArchiveNoDeck, ArchiveEmpty}

InitNoteIdle ==
    /\ noteIn = NoNoteInput
    /\ noteOut = NotProcessed
    /\ bat = IdleBatchCall
    /\ mediaStore = NoMediaFiles
    /\ ext = IdleExtract
    /\ sessions = <<>>
    /\ rev = IdleReview
    /\ zipIn = NoZip
    /\ loaded = NotLoaded

\* Stores and callers at rest, for the specifications that do not use them.
InitStoresIdle ==
    /\ importMappings = <<>>
    /\ nextMappingId = 1
    /\ uniqueTriple = FALSE
    /\ idCounter = 0
    /\ clock = 0
    /\ InitCalls
    /\ InitEntities
    /\ InitNoteIdle

InitSRSIdle ==
    /\ srsCard = createCard
    /\ srsPrev = createCard
    /\ srsRating = 0

\* Empty stores whose compound index may or may not be unique; no call, no
\* import and no rollback under way.
InitAnySchema ==
    InitSRSIdle /\ InitMappings /\ InitCalls /\ InitEntities /\ InitNoteIdle

\* Empty stores, nothing under way.
InitImport == InitSRSIdle /\ InitStoresIdle

\* recordReview feeds the stored card through the engine and stores the result.
Review(rating) ==
    /\ srsCard.totalReviews < MaxReviews
    /\ srsPrev' = srsCard
    /\ srsRating' = rating
    /\ srsCard' = calculateNextReview(srsCard, rating)
    /\ UNCHANGED <<mapVars, callVars, entityVars, procVars>>

NextSRS == \E rating \in Ratings : Review(rating)

\* Cards as createCard makes them, reviewed any number of times.
InitSched ==
    /\ srsCard = createCard
    /\ srsPrev = createCard
    /\ srsRating = 0
    /\ InitStoresIdle

SpecSched == InitSched /\ [][NextSRS]_vars

\* Any card handed to calculateNextReview once.
CardInputs ==
    [status : Statuses,
     interval : 0..MaxInterval,
     easeFactor : {MIN_EASE + 5 * k : k \in 0..MaxEaseSteps},
     repetitions : 0..MaxRepetitions,
     lapses : 0..MaxLapses,
     totalReviews : {MaxReviews - 1}]

InitCalc ==
    /\ srsCard \in CardInputs
    /\ srsPrev = srsCard
    /\ srsRating = 0
    /\ InitStoresIdle

SpecCalc == InitCalc /\ [][NextSRS]_vars

StepCall(p) == GocLookup(p) \/ GocUpdate(p) \/ GocAdd(p) \/ GocReturn(p)

\* One caller at a time, with deletions in between.
NextSeq ==
    \/ \E p \in Callers, t \in TripleInputs, b \in {NoBatch, <<"batch", 0>>} : GocStartAlone(p, t, b)
    \/ \E p \in Callers : StepCall(p)
    \/ \E s \in SourceSystems : deleteMappingsBySource(s)

SpecSeq == InitAnySchema /\ [][NextSeq]_vars

\* Calls that overlap, their storage steps interleaving.
NextRace ==
    \/ \E p \in Callers, t \in TripleInputs, b \in {NoBatch, <<"batch", 0>>} : GocStart(p, t, b)
    \/ \E p \in Callers : StepCall(p)

SpecRace == InitAnySchema /\ [][NextRace]_vars

\* Archives for the imports that rollbacks follow: one with an external
\* deck id, one without.
RollbackInputs == {ArchiveWithDeck, ArchiveNoDeck}

\* Imports one after the other, any storage request of which may fail, and
\* rollbacks of batches whose import has returned, any of which may be cut
\* short by a crash.
NextImport ==
    \/ \E archive \in RollbackInputs : ImpStart(archive, "all")
    \/ ImpStep
    \/ ImpStorageError
    \/ \E batchId \in DOMAIN importBatches : RbBeginAfterImport(batchId)
    \/ RbStep
    \/ RbCrash

SpecImport == InitImport /\ [][NextImport]_vars

\* What the lookups are asked: the triples, internal ids and deck ids of the
\* rows there are, and ones no row carries.
AskedTriples == {RowTriple(importMappings[i]) : i \in 1..Len(importMappings)}
                    \cup {<<"anki", <<"9999">>, "card">>}
AskedInternalIds == {importMappings[i].internalId : i \in 1..Len(importMappings)}
                        \cup {generateId("card", 0)}
AskedDeckIds == {<<"D1">>, <<"D9">>}

\* Imports one after the other, and lookups at any moment of them.
NextLookup ==
    \/ \E archive \in RollbackInputs : ImpStart(archive, "all")
    \/ ImpStep
    \/ \E t \in AskedTriples : GetInternalId("p1", t[1], t[2], t[3])
    \/ \E x \in AskedInternalIds, s \in SourceSystems : GetExternalId("p1", x, s)
    \/ \E s \in SourceSystems, d \in AskedDeckIds : GetDeckImportBatch("p1", s, d)
    \/ LookupResolve("p1")
    \/ GocReturn("p1")

SpecLookup == InitImport /\ [][NextLookup]_vars

\* rollbackImportBatch is called for the batch of the import under way, while
\* that import waits for a storage request.
RbBeginDuringImport ==
    /\ imp.pc \in ImportSteps
    /\ imp.importBatchId \in DOMAIN importBatches
    /\ RbBegin(imp.importBatchId)

\* Imports whose batch is rolled back before they have finished.
NextAbandon ==
    \/ \E archive \in RollbackInputs : ImpStart(archive, "all")
    \/ ImpStep
    \/ RbBeginDuringImport
    \/ RbStep

SpecAbandon == InitImport /\ [][NextAbandon]_vars

\* Field contents: empty, white space, text, markup without text, media
\* references, and text inside markup.
FieldMarkup ==
    {<<>>, <<Space>>, <<"Q">>, <<"<b>">>, <<"[sound:a.mp3]">>, <<"<img:p.png>">>,
     <<"<b>", "A", Space>>}

\* A two-field note with a one-template model, a two-template model, or a
\* model id the archive does not define.
NoteInputs ==
    [note : {[id |-> "1001", mid |-> "m2", fields |-> <<f, b>>] :
                 f \in FieldMarkup, b \in FieldMarkup},
     models : {NoModels, [m \in {"m2"} |-> PlainModel], [m \in {"m2"} |-> TwoWayModel]},
     direction : Directions]

InitNotes ==
    /\ InitSRSIdle
    /\ importMappings = <<>>
    /\ nextMappingId = 1
    /\ uniqueTriple = FALSE
    /\ idCounter = 0
    /\ clock = 0
    /\ InitCalls
    /\ InitEntities
    /\ noteIn \in NoteInputs
    /\ noteOut = NotProcessed
    /\ bat = IdleBatchCall
    /\ mediaStore = NoMediaFiles
    /\ ext = IdleExtract
    /\ sessions = <<>>
    /\ rev = IdleReview
    /\ zipIn = NoZip
    /\ loaded = NotLoaded

\* Any note handed to the note loop once.
SpecNotes == InitNotes /\ [][ProcessNote]_vars

\* fieldMapWithFront = { ...fieldMap, FrontSide: renderedFront }
WithFrontSide(fieldMap, renderedFront) ==
    [name \in DOMAIN fieldMap \cup {"FrontSide"} |->
        IF name = "FrontSide" THEN renderedFront ELSE fieldMap[name]]

NotRendered == [done |-> FALSE, front |-> <<>>, back |-> <<>>]

\* The two renderTemplate calls of the template loop: the question template
\* with the note's fields, the answer template with FrontSide added.
RenderCard ==
    /\ ~noteOut.done
    /\ LET renderedFront == renderTemplate(noteIn.qfmt, noteIn.fieldMap)
           renderedBack == renderTemplate(noteIn.afmt,
                               WithFrontSide(noteIn.fieldMap, renderedFront))
       IN noteOut' = [done |-> TRUE, front |-> renderedFront, back |-> renderedBack]
    /\ UNCHANGED <<srsVars, mapVars, callVars, entityVars, imp, rb, created, rolledBack,
                   tripVars, noteIn, bat, mediaVars, reviewVars, loadVars>>

\* Question templates: the conditional of the example, an inverted section,
\* a conditional inside a conditional, an inverted section inside a
\* conditional, a conditional inside an inverted section, a field the note
\* type does not have.
QuestionTemplates ==
    {<<IfSet("Front", <<Lit("Q:"), Field("Front")>>)>>,
     <<IfEmpty("Front", <<Lit("none")>>), Field("Front")>>,
     <<IfSet("Front", <<Lit("Q:"), IfSet("Back", <<Field("Back")>>)>>)>>,
     <<IfSet("Front", <<IfEmpty("Back", <<Lit("?")>>), Field("Front")>>)>>,
     <<IfEmpty("Back", <<IfSet("Front", <<Field("Front")>>)>>)>>,
     <<Field("Front"), Field("Extra")>>}

\* Answer templates: the rendered front above the back, the front only when
\* there is no back, an inverted section inside an inverted section.
AnswerTemplates ==
    {<<Field("FrontSide"), Lit("<hr>"), Field("Back")>>,
     <<IfSet("Back", <<Field("Back")>>), IfEmpty("Back", <<Field("FrontSide")>>)>>,
     <<IfEmpty("Front", <<IfEmpty("Back", <<Lit("empty")>>)>>)>>}

RenderInputs ==
    [qfmt : QuestionTemplates, afmt : AnswerTemplates,
     fieldMap : [{"Front", "Back"} -> {<<>>, <<Space>>, <<"2+2">>}]]

InitRender ==
    /\ InitSRSIdle
    /\ importMappings = <<>>
    /\ nextMappingId = 1
    /\ uniqueTriple = FALSE
    /\ idCounter = 0
    /\ clock = 0
    /\ InitCalls
    /\ InitEntities
    /\ noteIn \in RenderInputs
    /\ noteOut = NotRendered
    /\ bat = IdleBatchCall
    /\ mediaStore = NoMediaFiles
    /\ ext = IdleExtract
    /\ sessions = <<>>
    /\ rev = IdleReview
    /\ zipIn = NoZip
    /\ loaded = NotLoaded

\* Any template pair rendered once with any field values.
SpecRender == InitRender /\ [][RenderCard]_vars

\* The lists of source ids handed to the vectorized call.
RECURSIVE ListsUpTo(_)
ListsUpTo(n) ==
    IF n = 0 THEN {<<>>}
    ELSE ListsUpTo(n - 1) \cup
         {Append(l, id) : l \in {k \in ListsUpTo(n - 1) : Len(k) = n - 1}, id \in SourceIds}

\* Single and vectorized calls, one at a time.
NextBatch ==
    \/ \E p \in Callers, t \in TripleInputs :
           bat.pc = "idle" /\ GocStartAlone(p, t, NoBatch)
    \/ \E p \in Callers : StepCall(p)
    \/ \E l \in ListsUpTo(MaxListLen), b \in {NoBatch, <<"batch", 0>>} :
           BatStart("anki", l, "card", b)
    \/ BatQuery
    \/ BatBulkAdd
    \/ BatReturn

SpecBatch == InitAnySchema /\ [][NextBatch]_vars

\* Imports that meet no storage failure, an export, and the import of the
\* exported archive into a new database.
NextInterchange ==
    \/ \E archive \in ArchiveInputs, cardDirection \in Directions :
           exported.store = 1 /\ ImpStart(archive, cardDirection)
    \/ ImpStep
    \/ \E deckId \in DOMAIN decks \cup {generateId("deck", 0)} : ExportDeck(deckId)
    \/ FreshStore
    \/ \E cardDirection \in Directions : ImpStartExported(cardDirection)

SpecInterchange == InitAnySchema /\ [][NextInterchange]_vars

\* Imports; then cards and decks of the user's own and loss of the mapping
\* rows; and exports of what is stored.
NextExport ==
    \/ \E archive \in RollbackInputs : ImpStart(archive, "all")
    \/ ImpStep
    \/ \E deckId \in DOMAIN decks : imp.calls = MaxImports /\ DbCreateCard(deckId)
    \/ imp.calls = MaxImports /\ DbCreateDeck("My deck")
    \/ imp.calls = MaxImports /\ imp.pc = "idle" /\ deleteMappingsBySource("anki")
    \/ \E deckId \in DOMAIN decks \cup {generateId("deck", 0)} :
           imp.calls = MaxImports /\ ExportDeck(deckId)

SpecExport == InitImport /\ [][NextExport]_vars

\* A later version of the archive's deck: the same deck id, another note.
ArchiveGrown == [ArchiveWithDeck EXCEPT !.notes = <<NoteQA("1003", "m2")>>]

\* Imports into one deck and into decks of their own, cards of the user's own
\* in between, and exports of what is stored.
NextMixed ==
    \/ \E archive \in {ArchiveWithDeck, ArchiveGrown, ArchiveNoDeck},
          cardDirection \in {"all", "forward"} : ImpStart(archive, cardDirection)
    \/ ImpStep
    \/ \E deckId \in DOMAIN decks : DbCreateCard(deckId)
    \/ \E deckId \in DOMAIN decks : ExportDeck(deckId)

SpecMixed == InitImport /\ [][NextMixed]_vars

\* Media parts of archives: every file is in the manifest, under a name of
\* its own.
MediaArchives ==
    {NoMediaArchive} \cup
    {[mapping |-> [n \in {"0"} |-> f], files |-> << [name |-> "0", data |-> a] >>] :
        f \in {"cat.jpg", "dog.jpg"}, a \in {"A", "B"}} \cup
    {[mapping |-> [n \in {"0", "1"} |-> IF n = "0" THEN f ELSE g],
      files |-> << [name |-> "0", data |-> a], [name |-> "1", data |-> b] >>] :
        f \in {"cat.jpg"}, g \in {"dog.jpg", "1"}, a \in {"A", "B"}, b \in {"B", "C"}}

\* Archives imported one after another, as far as their media go.
NextMedia ==
    \/ \E archive \in MediaArchives : ExtStart(archive)
    \/ ExtStoreNumber
    \/ ExtStoreName

SpecMedia == InitImport /\ [][NextMedia]_vars

\* The user's cards, created, reviewed (rated Again or Good) and deleted.
NextReview ==
    \/ rev.pc = "idle" /\ idCounter < MaxIds /\ DbCreateCard(generateId("deck", 0))
    \/ \E cardId \in DOMAIN cards : DbDeleteCard(cardId)
    \/ \E cardId \in DOMAIN cards \cup {generateId("card", 0)}, rating \in {1, 3} :
           RevBegin(cardId, rating)
    \/ RevGet
    \/ RevUpdate
    \/ RevAdd
    \/ RevCommit
    \/ RevAbort
    \/ RevReturn

SpecReview == InitImport /\ [][NextReview]_vars

Members == {"collection.anki21b", "collection.anki21", "collection.anki2"}

\* Zips with any of the three members; the compressed member may be corrupt.
ZipInputs ==
    LET databases == {DatabaseBytes(a) : a \in {ArchiveWithDeck, ArchiveRenamed, ArchiveNoDeck}}
    IN {zip \in UNION {[present -> databases \cup {Compressed(b) : b \in databases}
                                            \cup {Garbage}] : present \in SUBSET Members} :
           \A name \in DOMAIN zip :
               IF name = "collection.anki21b"
               THEN zip[name] \notin databases
               ELSE zip[name] \in databases}

InitLoad ==
    /\ InitSRSIdle
    /\ InitMappings
    /\ InitCalls
    /\ InitEntities
    /\ noteIn = NoNoteInput
    /\ noteOut = NotProcessed
    /\ bat = IdleBatchCall
    /\ mediaStore = NoMediaFiles
    /\ ext = IdleExtract
    /\ sessions = <<>>
    /\ rev = IdleReview
    /\ zipIn \in ZipInputs
    /\ loaded = NotLoaded

\* Any zip handed to loadCollectionDatabase once.
SpecLoad == InitLoad /\ [][LoadCollection]_vars

\* Zips without a database member, with a corrupt compressed member, with a
\* database without notes, and with importable databases.
OpenInputs ==
    {NoZip,
     [name \in {"collection.anki21b", "collection.anki2"} |->
         IF name = "collection.anki2" THEN DatabaseBytes(ArchiveNoDeck) ELSE Garbage],
     [name \in {"collection.anki2"} |-> DatabaseBytes(ArchiveEmpty)],
     [name \in {"collection.anki21"} |-> DatabaseBytes(ArchiveNoDeck)],
     [name \in {"collection.anki21b", "collection.anki2"} |->
         IF name = "collection.anki2" THEN DatabaseBytes(ArchiveEmpty)
         ELSE Compressed(DatabaseBytes(ArchiveWithDeck))]}

\* Imports from the zip on.
NextOpen ==
    \/ \E zip \in OpenInputs : ImpOpen(zip, "all")
    \/ ImpStep

SpecOpen == InitImport /\ [][NextOpen]_vars

----------------------------------------------------------------------------
(* Identifier mapping service: properties *)

IsInternalId(x) == x # None /\ x # ConstraintError

\* C1: two successive getOrCreateMapping calls with the same triple and no
\* deletion in between return the same internal id, and after each call the
\* table holds exactly one row for the triple.
C1_SequentialIdempotence ==
    \A p \in Callers :
        call[p].pc = "done" =>
            /\ IsInternalId(call[p].ret)
            /\ call[p].prior # None => call[p].ret = call[p].prior
            /\ Len(RowsOf(importMappings, call[p].triple)) = 1

C1_Witness ==
    \E p \in Callers :
        /\ call[p].pc = "done"
        /\ call[p].prior # None
        /\ call[p].ret = call[p].prior
        /\ call[p].existing # NoRow
        /\ Len(importMappings) >= 2

\* C2: two overlapping getOrCreateMapping calls for the same triple both
\* return the same internal id and leave at most one row for the triple.
C2_RaceSafe ==
    /\ \A t \in Triples : Len(RowsOf(importMappings, t)) <= 1
    /\ \A p, q \in Callers :
           (call[p].pc = "done" /\ call[q].pc = "done"
              /\ call[p].triple = call[q].triple) =>
               (IsInternalId(call[p].ret) /\ call[p].ret = call[q].ret)

----------------------------------------------------------------------------
(* Import batches and rollback: properties *)

Present(e) ==
    IF e.type = "card" THEN e.id \in DOMAIN cards
    ELSE IF e.type = "deck" THEN e.id \in DOMAIN decks
    ELSE \E i \in 1..Len(importMappings) : <<importMappings[i].id>> = e.id

BatchRows(batchId) == SelectSeq(importMappings, LAMBDA m : m.importBatchId = batchId)

\* C3: once rollbackImportBatch(b) has completed for a batch opened by
\* importAnkiDeck, nothing that import created is left in the stores, no
\* mapping row carries b, and the status of b is rolled_back.
C3_RollbackPostcondition ==
    \A b \in rolledBack :
        /\ b \in DOMAIN importBatches
        /\ importBatches[b].status = "rolled_back"
        /\ BatchRows(b) = <<>>
        /\ \A e \in created : e.by = b => ~Present(e)

\* What belongs to a batch: the mapping rows that carry it and the cards and
\* decks stored under those rows.
Owned(batchId) == {e \in created : e.owner = batchId}

Intact(batchId) ==
    /\ importBatches[batchId].status # "rolled_back"
    /\ \A e \in Owned(batchId) : Present(e)

Gone(batchId) ==
    /\ importBatches[batchId].status = "rolled_back"
    /\ BatchRows(batchId) = <<>>
    /\ \A e \in Owned(batchId) : ~Present(e)

\* C4: in every state, also after a crash inside rollbackImportBatch, a batch
\* is either intact (all its cards, decks and mappings present, status not
\* rolled_back) or gone (none present, status rolled_back).
C4_RollbackAllOrNothing ==
    \A b \in DOMAIN importBatches : Intact(b) \/ Gone(b)

C4_Witness ==
    /\ rb.pc = "commit"
    /\ rb.tx.cards # cards
    /\ rb.tx.decks # decks
    /\ rb.tx.importMappings # importMappings
    /\ Intact(rb.batchId)
    /\ \E e \in Owned(rb.batchId) : e.type = "card"
    /\ \E e \in Owned(rb.batchId) : e.type = "deck"
    /\ \E b \in rolledBack : Gone(b) /\ Owned(b) # {}

----------------------------------------------------------------------------
(* Re-import and round trip: properties *)

SameContent(a, b) == a.deckId = b.deckId /\ a.notes = b.notes /\ a.models = b.models

\* C5: importing an archive that carries an external deck id a second time
\* into the same store returns a result with isReimport = true, leaves the
\* deck's card count as the first import left it, and sets the deck's name
\* to the archive's current deck name.
C5_ReimportInPlace ==
    \A i, j \in 1..Len(imported) :
        (/\ i < j
         /\ imported[i].ok
         /\ imported[i].archive.deckId # None
         /\ imported[i].store = imported[j].store
         /\ imported[i].direction = imported[j].direction
         /\ SameContent(imported[i].archive, imported[j].archive)) =>
            /\ imported[j].ok
            /\ imported[j].result.isReimport
            /\ Len(imported[j].deckCards) = Len(imported[i].deckCards)
            /\ imported[j].deckName = imported[j].archive.deckName

\* C6: importing an archive, exporting the resulting deck and importing the
\* export into a fresh store yields the same number of cards and, card for
\* card, the same front and back text as the first import.
C6_RoundTripIdentity ==
    \A i, j \in 1..Len(imported) :
        (/\ imported[i].store = 1
         /\ imported[i].ok
         /\ exported.status = "ok"
         /\ imported[i].result.deckId = exported.deckId
         /\ imported[j].store = 2
         /\ imported[j].direction = "all"
         /\ \A k \in 1..(j - 1) : imported[k].store = 1) =>
            /\ imported[j].ok
            /\ imported[j].deckCards = imported[i].deckCards

----------------------------------------------------------------------------
(* Scheduling engine: properties *)

EaseMultiplier(rating) == IF rating = 2 THEN 8 ELSE IF rating = 4 THEN 13 ELSE 10

\* C7: from a createCard card, after any sequence of ratings the ease factor
\* stays within [1.3, 2.5].
C7_EaseWithinBounds ==
    srsCard.easeFactor >= 130 /\ srsCard.easeFactor <= 250

\* C8: rating Again on any card gives repetitions 0, interval 1, one more
\* lapse, status relearning and ease factor max(1.3, old - 0.2).
C8_RatingAgain ==
    srsRating = 1 =>
        /\ srsCard.repetitions = 0
        /\ srsCard.interval = 1
        /\ srsCard.lapses = srsPrev.lapses + 1
        /\ srsCard.status = "relearning"
        /\ srsCard.easeFactor =
               (IF srsPrev.easeFactor - 20 < 130 THEN 130 ELSE srsPrev.easeFactor - 20)

C8_Witness ==
    /\ srsRating = 1
    /\ srsPrev.status = "review"
    /\ srsPrev.easeFactor = 140
    /\ srsPrev.repetitions = 3
    /\ srsCard.easeFactor = 130
    /\ srsCard.repetitions = 0

\* C9: a review-status card rated Hard, Good or Easy gets interval 1 when it
\* had 0 repetitions, 6 when it had 1, otherwise round(interval x ease x m)
\* with the ease factor of before the review, and one more repetition;
\* interval 10, ease 2.0, 3 repetitions rated Good gives 20 and ease 2.0.
C9_ReviewInterval ==
    (srsRating \in {2, 3, 4} /\ srsPrev.status = "review") =>
        /\ srsCard.repetitions = srsPrev.repetitions + 1
        /\ srsPrev.repetitions = 0 => srsCard.interval = 1
        /\ srsPrev.repetitions = 1 => srsCard.interval = 6
        /\ srsPrev.repetitions >= 2 =>
               srsCard.interval =
                   (srsPrev.interval * srsPrev.easeFactor * EaseMultiplier(srsRating)
                      + 500) \div 1000
        /\ (srsRating = 3 /\ srsPrev.interval = 10 /\ srsPrev.easeFactor = 200
              /\ srsPrev.repetitions = 3) =>
               (srsCard.interval = 20 /\ srsCard.easeFactor = 200)

C9_Witness ==
    /\ srsRating = 3
    /\ srsPrev.status = "review"
    /\ srsPrev.interval = 10
    /\ srsPrev.easeFactor = 200
    /\ srsPrev.repetitions = 3
    /\ srsCard.interval = 20

InReviewDomain(card) ==
    /\ card.status = "review"
    /\ card.repetitions >= 2
    /\ card.interval >= 1
    /\ card.easeFactor >= 130
    /\ card.easeFactor <= 250

\* C10 as stated: for every review card with repetitions >= 2, interval >= 1
\* and ease in [1.3, 2.5], Easy gives a strictly larger interval than Good.
C10_EasyStrictlyLarger ==
    (srsRating = 4 /\ InReviewDomain(srsPrev)) =>
        srsCard.interval > calculateNextReview(srsPrev, 3).interval

\* C10 amended: Easy never gives a smaller interval than Good, and gives a
\* strictly larger one whenever the card's interval is at least 3.
C10_EasyLargerFromThree ==
    (srsRating = 4 /\ InReviewDomain(srsPrev)) =>
        /\ srsCard.interval >= calculateNextReview(srsPrev, 3).interval
        /\ srsPrev.interval >= 3 =>
               srsCard.interval > calculateNextReview(srsPrev, 3).interval

C10_Witness ==
    /\ srsRating = 4
    /\ InReviewDomain(srsPrev)
    /\ srsPrev.interval = 10
    /\ srsPrev.easeFactor = 200
    /\ srsPrev.repetitions = 3
    /\ srsCard.interval = 26


\* C11: a card whose status is new or learning goes to review with interval
\* 1 on Good and with interval 4 on Easy; on Hard it gets interval 1 and
\* keeps its status.
C11_LearningTransitions ==
    (srsRating \in {2, 3, 4} /\ srsPrev.status \in {"new", "learning"}) =>
        /\ srsRating = 3 => (srsCard.status = "review" /\ srsCard.interval = 1)
        /\ srsRating = 4 => (srsCard.status = "review" /\ srsCard.interval = 4)
        /\ srsRating = 2 => (srsCard.status = srsPrev.status /\ srsCard.interval = 1)

C11_Witness ==
    /\ srsRating = 4
    /\ srsPrev.status = "learning"
    /\ srsPrev.interval = 1
    /\ srsCard.status = "review"
    /\ srsCard.interval = 4


----------------------------------------------------------------------------
(* Import failures: properties *)

C13_NoteFailureNotFatal ==
    (imp.pc \in {"done", "error"} /\ imp.failedAt \in NoteSteps) =>
        /\ imp.pc = "done"
        /\ importBatches[imp.importBatchId].status = "completed"


----------------------------------------------------------------------------
(* Note loop: properties *)

Placeholders == {<<"(image only)">>, <<"No content">>}

\* C14: on the template path and on the fallback path, no card is stored
\* for a note side pair whose front and back text are both empty and that
\* carries no image reference; no placeholder card appears.
C14_EmptyCardSuppressed ==
    noteOut.done =>
        \A i \in 1..Len(noteOut.drafts) :
            (noteOut.drafts[i].front \in Placeholders
               /\ noteOut.drafts[i].back \in Placeholders) =>
                (noteOut.drafts[i].frontImage # NoMedia
                   \/ noteOut.drafts[i].backImage # NoMedia)


----------------------------------------------------------------------------
(* Vectorized get-or-create: properties *)

TriplesOf(table) == [i \in 1..Len(table) |-> RowTriple(table[i])]

\* C15: a vectorized call that has finished did not fail, returned for every
\* list element the internal id a single call returns for it (the stored one
\* for an id mapped before, the one of the row now stored otherwise), and
\* left the table with the triples, row for row, that one single call per
\* list element leaves.
C15_BatchAgreesWithSingleCalls ==
    bat.pc = "done" =>
        /\ ~bat.threw
        /\ \A i \in 1..Len(bat.sourceIds) :
               LET id == bat.sourceIds[i]
                   triple == <<bat.sourceSystem, id, bat.entityType>>
               IN /\ id \in DOMAIN bat.mappings
                  /\ LookupMapping(bat.before, triple) # NoRow =>
                         bat.mappings[id] = bat.serial.ret[i]
                  /\ LookupMapping(importMappings, triple) # NoRow
                  /\ LookupMapping(importMappings, triple).internalId = bat.mappings[id]
        /\ TriplesOf(importMappings) = TriplesOf(bat.serial.table)


----------------------------------------------------------------------------
(* Rollback of a batch whose import is under way: properties *)

\* C16: when importAnkiDeck has finished and rollbackImportBatch completed
\* for its batch while the import was under way, the batch has status
\* rolled_back, no mapping row carries it, and no card, deck or mapping the
\* import stored exists.
C16_AbandonedBatchStaysRolledBack ==
    (imp.pc \in {"done", "error"} /\ imp.importBatchId \in rolledBack) =>
        /\ Gone(imp.importBatchId)
        /\ \A e \in created : e.by = imp.importBatchId => ~Present(e)


----------------------------------------------------------------------------
(* Archive export: properties *)

\* An exportAnkiDeck call returns or throws.
ExportCall == exported' # exported /\ exported'.store = exported.store

\* The external id the export finds for a card: the first mapping row of the
\* card, else the card's own field, else none.
FoundExternalId(c) ==
    IF \E i \in 1..Len(importMappings) :
           importMappings[i].internalId = c /\ importMappings[i].sourceSystem = "anki"
    THEN LET i == CHOOSE i \in 1..Len(importMappings) :
                      /\ importMappings[i].internalId = c
                      /\ importMappings[i].sourceSystem = "anki"
                      /\ \A j \in 1..(i - 1) : importMappings[j].internalId # c
         IN importMappings[i].sourceId
    ELSE cards[c].externalId

\* C17: in the database of an export that returns, the note rows have
\* pairwise different ids, there is a note row for the note of every card of
\* the deck and no other, the number of note rows is the number of distinct
\* external note ids among the cards plus the number of cards without one,
\* and the card rows are as many as the deck's cards and as the returned
\* cardCount, with pairwise different ids.
C17_ExportInsertsEachNoteOnce ==
    [][(ExportCall /\ exported'.status = "ok") =>
          LET deckCards == CardsOfDeck(cards, exported'.deckId)
              noteRows == exported'.archive.notes
              cardRows == exported'.cardRows
              noteIds == {FoundExternalId(c)[1] :
                             c \in {d \in deckCards : FoundExternalId(d) # None}}
              unnumbered == {c \in deckCards : FoundExternalId(c) = None}
          IN /\ \A i, j \in 1..Len(noteRows) : i # j => noteRows[i].id # noteRows[j].id
             /\ {cardRows[i].nid : i \in 1..Len(cardRows)} =
                    {noteRows[i].id : i \in 1..Len(noteRows)}
             /\ Len(noteRows) = Cardinality(noteIds) + Cardinality(unnumbered)
             /\ noteIds \subseteq {noteRows[i].id : i \in 1..Len(noteRows)}
             /\ Len(cardRows) = Cardinality(deckCards)
             /\ exported'.cardCount = Len(cardRows)
             /\ \A i, j \in 1..Len(cardRows) : i # j => cardRows[i].id # cardRows[j].id
      ]_vars

C17_Witness ==
    /\ exported.status = "ok"
    /\ exported.cardCount = 3
    /\ Len(exported.cardRows) = 3
    /\ Len(exported.archive.notes) = 2
    /\ exported.cardRows[1].nid = exported.cardRows[2].nid
    /\ exported.cardRows[3].nid # exported.cardRows[1].nid

\* C18: an export that returns writes the deck under the source id of the
\* deck's mapping row when there is one, else under the deck's externalId
\* field when set, else under an id no archive gave; and writes every card
\* under the note id of the card's mapping row when there is one, else of the
\* card's externalId field when set, else under a generated id.  A deck
\* stored with external id D is exported as D, a card stored from note n is
\* exported under n.
C18_ExportRestoresIdentifiers ==
    [][(ExportCall /\ exported'.status = "ok") =>
          LET d == exported'.deckId
              deckRows == SelectSeq(importMappings,
                                    LAMBDA m : m.internalId = d /\ m.sourceSystem = "anki")
              ids == InKeyOrder(CardsOfDeck(cards, d))
              given == {importMappings[i].sourceId : i \in 1..Len(importMappings)}
                           \cup {decks[k].externalId : k \in DOMAIN decks}
              notesGiven == {importMappings[i].sourceId[1] : i \in 1..Len(importMappings)}
                              \cup {cards[c].externalId[1] :
                                        c \in {k \in DOMAIN cards : cards[k].externalId # None}}
          IN /\ deckRows # <<>> => exported'.archive.deckId = Head(deckRows).sourceId
             /\ (deckRows = <<>> /\ decks[d].externalId # None) =>
                    exported'.archive.deckId = decks[d].externalId
             /\ (deckRows = <<>> /\ decks[d].externalId = None) =>
                    exported'.archive.deckId \notin given
             /\ decks[d].externalId # None => exported'.archive.deckId = decks[d].externalId
             /\ \A i \in 1..Len(ids) :
                    LET c == ids[i]
                        rows == SelectSeq(importMappings,
                                    LAMBDA m : m.internalId = c /\ m.sourceSystem = "anki")
                        nid == exported'.cardRows[i].nid
                    IN /\ rows # <<>> => nid = Head(rows).sourceId[1]
                       /\ (rows = <<>> /\ cards[c].externalId # None) =>
                              nid = cards[c].externalId[1]
                       /\ (rows = <<>> /\ cards[c].externalId = None) =>
                              nid \notin notesGiven
                       /\ cards[c].externalId # None => nid = cards[c].externalId[1]
      ]_vars

C18_Witness ==
    /\ exported.status = "ok"
    /\ exported.store = 1
    /\ exported.archive.deckId = <<"D1">>
    /\ importMappings = <<>>
    /\ Len(exported.cardRows) = 3
    /\ exported.cardRows[1].nid = "1001"
    /\ \A c \in DOMAIN cards : cards[c].externalId # None => cards[c].externalId[1] = "1001"
    /\ exported.cardRows[3].nid # "1001"

\* C19: an exportAnkiDeck call for a deck that does not exist or has no card
\* throws, returns no archive and no card count, and leaves the cards, decks,
\* mapping and batch stores as they were.
C19_ExportPreconditions ==
    [][(/\ ExportCall
        /\ \/ exported'.deckId \notin DOMAIN decks
           \/ \A c \in DOMAIN cards : cards[c].deckId # exported'.deckId) =>
          /\ exported'.status = "error"
          /\ exported'.archive = NoArchive
          /\ exported'.cardRows = <<>>
          /\ exported'.cardCount = 0
          /\ UNCHANGED <<cards, decks, importMappings, importBatches>>
      ]_vars

C19_Witness ==
    /\ exported.status = "error"
    /\ exported.deckId \in DOMAIN decks
    /\ \A c \in DOMAIN cards : cards[c].deckId # exported.deckId
    /\ cards # EmptyTable


----------------------------------------------------------------------------
(* Media store: properties *)

\* C20: between imports, every manifest entry (n -> f) of every archive
\* imported so far has both names in the store with the same bytes; and no
\* step changes or removes the bytes stored under a name.
C20_MediaDualAddressing ==
    /\ [](ext.pc = "idle" =>
             \A e \in ext.manifests :
                 /\ e[1] \in DOMAIN mediaStore
                 /\ e[2] \in DOMAIN mediaStore
                 /\ mediaStore[e[1]] = mediaStore[e[2]])
    /\ [][\A fileName \in DOMAIN mediaStore :
              fileName \in DOMAIN mediaStore' /\ mediaStore'[fileName] = mediaStore[fileName]
         ]_vars


----------------------------------------------------------------------------
(* Lapse recovery: properties *)

\* C30: a review rated Good or Easy of a card in status relearning leaves
\* the card in status review, and no card is in status relearning after a
\* review rated Good or Easy.
C30_LapseRecovery ==
    srsRating \in {3, 4} =>
        /\ srsPrev.status = "relearning" => srsCard.status = "review"
        /\ srsCard.status # "relearning"


----------------------------------------------------------------------------
(* Review recording: properties *)

SessionsOf(cardId) == SelectSeq(sessions, LAMBDA s : s.cardId = cardId)

\* C29: in every state every stored card has as many session rows as
\* reviews counted in its totalReviews, and a recordReview call that has
\* thrown, for a missing card among others, has left the cards store and the
\* sessions store as they were when it was called.
C29_ReviewRecordingAtomic ==
    /\ \A c \in DOMAIN cards : Len(SessionsOf(c)) = cards[c].sched.totalReviews
    /\ (rev.pc = "done" /\ rev.threw) =>
           (cards = rev.before.cards /\ sessions = rev.before.sessions)
    /\ (rev.pc = "done" /\ rev.cardId \notin DOMAIN rev.before.cards) => rev.threw

C29_Witness ==
    /\ rev.pc = "done"
    /\ rev.threw
    /\ rev.cardId \notin DOMAIN cards
    /\ \E c \in DOMAIN cards : Len(SessionsOf(c)) = 2 /\ cards[c].sched.status = "relearning"


----------------------------------------------------------------------------
(* Opening the archive: properties *)

\* C21: loadCollectionDatabase opens collection.anki21b when present, else
\* collection.anki21 when present, else collection.anki2; it hands on the
\* decompressed bytes of collection.anki21b and the bytes as they are of the
\* other two; it throws the decompression error when collection.anki21b does
\* not decompress and the invalid-package error when no member is present.
C21_MemberPriority ==
    loaded.done =>
        LET present == DOMAIN zipIn
            first == IF "collection.anki21b" \in present THEN "collection.anki21b"
                     ELSE IF "collection.anki21" \in present THEN "collection.anki21"
                     ELSE "collection.anki2"
        IN /\ present = {} <=>
                  loaded.error = "Invalid Anki package: no collection database found"
           /\ present # {} =>
                  /\ loaded.fileName = first
                  /\ loaded.decompressed <=>
                         (first = "collection.anki21b" /\ zipIn[first] # Garbage)
                  /\ (first = "collection.anki21b" /\ zipIn[first] = Garbage) <=>
                         loaded.error = "Failed to decompress collection.anki21b file"
                  /\ (first = "collection.anki21b" /\ zipIn[first] # Garbage) =>
                         Compressed(loaded.database) = zipIn[first]
                  /\ first # "collection.anki21b" => loaded.database = zipIn[first]

C21_Witness ==
    /\ loaded.done
    /\ DOMAIN zipIn = Members
    /\ loaded.fileName = "collection.anki21b"
    /\ loaded.decompressed
    /\ loaded.database = DatabaseBytes(ArchiveWithDeck)
    /\ zipIn["collection.anki2"] = DatabaseBytes(ArchiveNoDeck)


\* C22: an importAnkiDeck call that fails because no database member is
\* present, because the compressed member does not decompress, or because
\* the database holds no notes leaves the batch, deck, card and mapping
\* stores as they were, and has no batch id.
C22_EarlyErrorsTouchNothing ==
    [][(imp.pc = "idle" /\ imp'.pc = "error") =>
          /\ UNCHANGED <<importBatches, decks, cards, importMappings>>
          /\ imp'.importBatchId = None
          /\ imp'.result.importBatchId = None
      ]_vars

C22_Witness ==
    /\ imp.pc = "error"
    /\ imp.failedAt = "Failed to decompress collection.anki21b file"
    /\ imp.importBatchId = None
    /\ cards # EmptyTable
    /\ \A b \in DOMAIN importBatches : importBatches[b].status = "completed"


\* A section is kept exactly when its field is filled (conditional) or empty
\* (inverted), wherever in the template it stands; what is kept is rendered
\* in turn, and a field token becomes the field's value or nothing.
RECURSIVE Expected(_, _)
Expected(items, fieldMap) ==
    IF items = <<>> THEN <<>>
    ELSE LET item == Head(items)
             rest == Expected(Tail(items), fieldMap)
             filled == Trim(FieldValue(fieldMap, item.name)) # <<>>
         IN IF item.kind = "lit" THEN <<item.name>> \o rest
            ELSE IF item.kind = "field" THEN FieldValue(fieldMap, item.name) \o rest
            ELSE IF (item.kind = "if") = filled
            THEN Expected(item.body, fieldMap) \o rest
            ELSE rest

\* C23: rendering keeps a {{#F}} section iff F's trimmed value is non-empty
\* and a {{^F}} section iff it is empty, replaces every remaining {{F}} by
\* F's value or the empty string, and resolves {{FrontSide}} in the answer
\* template to the rendered front.
C23_TemplateRendering ==
    noteOut.done =>
        /\ noteOut.front = Expected(noteIn.qfmt, noteIn.fieldMap)
        /\ noteOut.back = Expected(noteIn.afmt,
                              WithFrontSide(noteIn.fieldMap, noteOut.front))


\* The caller whose getOrCreateMapping call found its triple mapped.
OnMappedPath(p) == call[p].existing # NoRow

\* C24: a getOrCreateMapping call on an already mapped triple changes only
\* the updatedAt of the row it found: that row's other fields, every other
\* mapping row, and the cards and decks stores stay as they were, also when
\* the call passes another importBatchId than the row's.
C24_MappingRowsImmutable ==
    [][\A p \in Callers :
          (OnMappedPath(p) \/ OnMappedPath(p)') =>
              /\ Len(importMappings') = Len(importMappings)
              /\ \A i \in 1..Len(importMappings) :
                    /\ [importMappings'[i] EXCEPT !.updatedAt = 0]
                         = [importMappings[i] EXCEPT !.updatedAt = 0]
                    /\ importMappings'[i] # importMappings[i]
                         => importMappings[i].id = call[p].existing.id
              /\ cards' = cards
              /\ decks' = decks]_vars

\* A call that passed another batch id has returned the id of a row whose
\* timestamp it moved.
C24_Witness ==
    \E p \in Callers :
        /\ call[p].pc = "done"
        /\ OnMappedPath(p)
        /\ \E i \in 1..Len(importMappings) :
              /\ importMappings[i].id = call[p].existing.id
              /\ importMappings[i].importBatchId # call[p].importBatchId
              /\ importMappings[i].updatedAt > importMappings[i].importedAt
              /\ call[p].ret = importMappings[i].internalId
        /\ Len(importMappings) > 1


\* No mapping row answers the query of a lookup.
Unmapped(query) ==
    \A i \in 1..Len(importMappings) :
        LET m == importMappings[i]
        IN IF query[1] = "getInternalId"
           THEN <<m.sourceSystem, m.sourceId, m.entityType>>
                    # <<query[2], query[3], query[4]>>
           ELSE IF query[1] = "getExternalId"
           THEN ~(m.internalId = query[2] /\ m.sourceSystem = query[3])
           ELSE <<m.sourceSystem, m.sourceId, m.entityType>>
                    # <<query[2], query[3], "deck">>

\* C25: a step of getInternalId, getExternalId or getDeckImportBatch leaves
\* the mapping rows, the batch rows and every other store as they were, and
\* a lookup that no row answers returns null.
C25_PureLookups ==
    [][\A p \in Callers :
          (call'[p] # call[p] /\ (call[p].pc = "query" \/ call'[p].pc = "query")) =>
              /\ importMappings' = importMappings
              /\ importBatches' = importBatches
              /\ cards' = cards
              /\ decks' = decks
              /\ mediaStore' = mediaStore
              /\ sessions' = sessions
              /\ (call[p].pc = "query" /\ Unmapped(call[p].triple))
                     => call'[p].ret = None]_vars

\* A lookup that no row answers has returned null with mapping and batch
\* rows in the stores.
C25_Witness ==
    /\ call["p1"].pc = "done"
    /\ call["p1"].triple # None
    /\ call["p1"].triple[1] \in {"getInternalId", "getExternalId", "getDeckImportBatch"}
    /\ Unmapped(call["p1"].triple)
    /\ call["p1"].ret = None
    /\ importMappings # <<>>
    /\ DOMAIN importBatches # {}


\* C26: no two mapping rows share an internal id, and for every mapping row
\* with internal id x for (s, id, k), getInternalId(s, id, k) gives x and
\* getExternalId(x, s) gives id.
C26_LookupsInvertGetOrCreate ==
    /\ \A i, j \in 1..Len(importMappings) :
          i # j => importMappings[i].internalId # importMappings[j].internalId
    /\ \A i \in 1..Len(importMappings) :
          LET m == importMappings[i]
          IN /\ getInternalId(importMappings, m.sourceSystem, m.sourceId, m.entityType)
                    = m.internalId
             /\ getExternalId(importMappings, m.internalId, m.sourceSystem) = m.sourceId


\* C27: an external card id stands for the same template of the note under
\* every card direction: a card the note loop makes under one direction and
\* a card it makes under another with the same external id are the same
\* card.
C27_ExternalIdsStableAcrossFilters ==
    noteOut.done =>
        \A cardDirection \in Directions :
            LET others == noteDrafts(noteIn.note, noteIn.models, cardDirection)
            IN \A i \in 1..Len(noteOut.drafts), j \in 1..Len(others) :
                   others[j].externalId = noteOut.drafts[i].externalId
                       => others[j] = noteOut.drafts[i]


\* C28: an export of a deck that has cards gives all card rows pairwise
\* different ids and all note rows pairwise different ids, whatever mix of
\* template cards, fallback cards and cards of the user's own the deck holds,
\* and does not fail on an insert.
C28_ExportedCardIdsDistinct ==
    [][(ExportCall /\ CardsOfDeck(cards, exported'.deckId) # {}) =>
          LET cardRows == exported'.cardRows
              noteRows == exported'.archive.notes
          IN /\ exported'.status = "ok"
             /\ Len(cardRows) = Cardinality(CardsOfDeck(cards, exported'.deckId))
             /\ \A i, j \in 1..Len(cardRows) : i # j => cardRows[i].id # cardRows[j].id
             /\ \A i, j \in 1..Len(noteRows) : i # j => noteRows[i].id # noteRows[j].id
      ]_vars

====
